---- MODULE Spec2Model ----
(***************************************************************************)
(* Epidemics on Networks (EoN), simulation.py: the event-driven engines    *)
(* fast_SIR / fast_SIS (myQueue over heapq) and the Gillespie engines      *)
(* Gillespie_SIR / Gillespie_SIS (risk groups held in _ListDict_), and the *)
(* percolation functions estimate_SIR_prob_size, get_infected_nodes and    *)
(* estimate_SIR_prob_size_from_dir_perc.                                   *)
(*                                                                         *)
(* One behaviour is one call of one entry point, with return_full_data     *)
(* True.  Every draw of the random      *)
(* module is a nondeterministic choice: random.expovariate returns a delay *)
(* in 0..MaxDelay (it computes -log(1 - random())/lambd with random() in   *)
(* [0, 1), so 0.0 is among its values), and raises ZeroDivisionError for   *)
(* rate 0.  Times are integers; float('Inf') is Inf, above every finite    *)
(* time.  Nodes are 1..G.order and G.neighbors(u) lists them in ascending  *)
(* order.                                                                  *)
(***************************************************************************)
EXTENDS Integers, Sequences, FiniteSets, TLC

\* ------------------------------------------------------------------ bounds
\* random.expovariate draws from 0..MaxDelay
MaxDelay == 2
\* the largest finite time a run may reach (draws are limited to it)
MaxTime == 3
\* the longest trajectory an SIS run may build (SIS runs need not end)
MaxSamples == 4
\* random.random() is k / ProbDen for a k in 0..ProbDen-1, p is p / ProbDen
ProbDen == 2
MaxItems == 3
MaxAdds == 3

Inf == MaxTime + 1

Min(a, b) == IF a < b THEN a ELSE b
\* max with the smaller argument returned
Max_min(a, b) == IF a < b THEN a ELSE b

Max(a, b) == IF a < b THEN b ELSE a

\* the draws random.expovariate may return when the clock shows t
Delays(t) == {d \in 0..MaxDelay : t + d <= MaxTime}

\* ------------------------------------------------------------------ graphs
\* G as the engines read it: G.order() and G.neighbors(u)
MkGraph(n, E) ==
    [order |-> n,
     adj   |-> [u \in 1..n |-> {v \in 1..n : <<u, v>> \in E \/ <<v, u>> \in E}]]

Nodes(g) == 1..g.order

\* G.neighbors(u), in ascending order of node
RECURSIVE SetToSeq(_)
SetToSeq(s) ==
    IF s = {} THEN <<>>
    ELSE LET m == CHOOSE x \in s : \A y \in s : x <= y
         IN <<m>> \o SetToSeq(s \ {m})

neighbors(g, u) == SetToSeq(g.adj[u])

Range(s) == {s[i] : i \in 1..Len(s)}

\* len(set(L)) = len(L)
Distinct(s) == Cardinality(Range(s)) = Len(s)

\* ------------------------------------------------------------------ heapq
\* Event.__lt__ with the comparison reversed
EventLt_gt(a, b) == a.time > b.time

\* Event.__lt__ : events are ordered by time alone
EventLt(a, b) == a.time < b.time

\* heapq._siftdown(heap, startpos, pos), positions counted from 1:
\* newitem climbs while it is strictly smaller than its parent
RECURSIVE siftdown(_, _, _, _)
siftdown(heap, newitem, startpos, pos) ==
    IF pos > startpos /\ EventLt(newitem, heap[pos \div 2])
    THEN siftdown([heap EXCEPT ![pos] = heap[pos \div 2]], newitem,
                  startpos, pos \div 2)
    ELSE [heap EXCEPT ![pos] = newitem]

\* the loop of heapq._siftup: the smaller child (the right one on a tie)
\* moves up until a leaf is reached; yields the heap and the leaf position
RECURSIVE siftup_loop(_, _)
siftup_loop(heap, pos) ==
    LET endpos   == Len(heap)
        childpos == 2 * pos
        rightpos == childpos + 1
        c == IF rightpos <= endpos /\ ~EventLt(heap[childpos], heap[rightpos])
             THEN rightpos ELSE childpos
    IN IF childpos <= endpos
       THEN siftup_loop([heap EXCEPT ![pos] = heap[c]], c)
       ELSE <<heap, pos>>

\* heapq._siftup(heap, pos)
siftup(heap, pos) ==
    LET newitem == heap[pos]
        r == siftup_loop(heap, pos)
    IN siftdown(r[1], newitem, pos, r[2])

\* heapq.heappush(heap, item)
heappush(heap, item) == siftdown(Append(heap, item), item, 1, Len(heap) + 1)

\* heappop that returns the last item of the list
heappop_item_last(heap) == heap[Len(heap)]

\* heapq.heappop(heap): the item returned
heappop_item(heap) == heap[1]

\* heapq.heappop(heap): the heap left behind
heappop_rest(heap) ==
    LET lastelt == heap[Len(heap)]
        h == SubSeq(heap, 1, Len(heap) - 1)
    IN IF h # <<>> THEN siftup([h EXCEPT ![1] = lastelt], 1) ELSE h

\* ------------------------------------------------------------------ myQueue
\* Event(time, function, args): of args only the node (and for SIS the
\* source) differ between events; source 0 is 'initial_condition'.  initial
\* marks the events the entry point enqueues, and at is the time of the event
\* whose handler created this one (neither is a field of the code; nor is the
\* source of a transmission event of fast_SIR, which is kept for the record).
Event(time, function, source, node, initial, at) ==
    [time |-> time, function |-> function, source |-> source, node |-> node,
     initial |-> initial, at |-> at]

\* myQueue.add with the operand of the comparison mutated to <=
Q_add_le(q, tm, event) == IF event.time <= tm THEN heappush(q, event) ELSE q

\* myQueue.add(event) on a queue with self.tmax = tm
Q_add(q, tm, event) == IF event.time < tm THEN heappush(q, event) ELSE q

\* ------------------------------------------------------------------ state
VARIABLES
    engine,             \* the entry point called
    G, tau, gamma, tmax,        \* its arguments
    initial_infecteds,  \* [kind: the form of the argument, "None", "node" or
                        \*  "list"; nodes: the list it stands for, which the
                        \*  entry point samples when the argument is None]
    rho,                \* [given: BOOLEAN, num: rho = num / RhoDen]
    pc,                 \* "start", "loop" (the while loop), "returned", "error"
    raised,             \* the exception that ended the call, "" when none
    status, rec_time, pred_inf_time,    \* the dicts of the engines
    Q,                  \* myQueue._Q_
    times, S, I, R,     \* the trajectory lists
    infected, infected_neighbor_count, risk_group,      \* Gillespie
    total_rec_rate, total_trans_rate, next_time,        \* Gillespie
    infection_times, recovery_times,    \* the per-node lists of
                        \* fast_SIS and of the Gillespie engines
    Q_arg,              \* the argument Q of fast_nonMarkov_SIR: [given:
                        \*  FALSE for None, events: the list a given Q holds]
    p, H, it, returnval,        \* the percolation functions: the argument p
                        \* = p / ProbDen, the percolated graph, the iterator
                        \* of the loop that builds it, the value returned
    last_event,         \* the event the last step executed (not in the code)
    n_events,           \* state changes made by events that are not initial
                        \* infections (not in the code)
    history,            \* the events that changed a status, in the order
                        \* they ran (not in the code)
    container,          \* a _ListDict_ used on its own
    container_last,     \* the last operation on it: [op, item, before: the
                        \* container as the operation found it] (not in the
                        \* code)
    n_added, n_popped,  \* a myQueue used on its own: the events add has
                        \* pushed, the events pop_and_run has popped (not in
                        \* the code)
    susceptible, infecteds,     \* discrete_SIR_epidemic: its dict and the
                        \* list of the nodes infected in the current step
    generations         \* the sets of nodes infected at steps 0, 1, ... of
                        \* discrete_SIR_epidemic (not in the code)

vars == <<engine, G, tau, gamma, tmax, initial_infecteds, rho, pc, raised, status,
          rec_time, pred_inf_time, Q, times, S, I, R, infected,
          infected_neighbor_count, risk_group, total_rec_rate,
          total_trans_rate, next_time, infection_times, recovery_times, Q_arg,
          p, H, it, returnval, last_event, n_events, history, container,
          container_last, n_added, n_popped, susceptible, infecteds,
          generations>>

args == <<engine, G, tau, gamma, tmax, rho, Q_arg, p>>
perc_vars == <<H, it, returnval>>
container_vars == <<container, container_last, n_added, n_popped>>
discrete_vars == <<susceptible, infecteds, generations>>
history_vars == <<infection_times, recovery_times>>
gillespie_vars == <<infected, infected_neighbor_count, risk_group,
                    total_rec_rate, total_trans_rate, next_time>>
fast_vars == <<rec_time, pred_inf_time, Q>>

FastEngines == {"fast_SIR", "fast_SIS"}
GillespieEngines == {"Gillespie_SIR", "Gillespie_SIS"}
SIREngines == {"fast_SIR", "Gillespie_SIR"}

NoEvent == [time |-> 0, function |-> "none", source |-> 0, node |-> 0,
            initial |-> FALSE, at |-> 0, changed |-> FALSE]

Ran(event, changed) ==
    [time |-> event.time, function |-> event.function, source |-> event.source,
     node |-> event.node, initial |-> event.initial, at |-> event.at,
     changed |-> changed]

\* L[k:] with nothing stripped
Drop_none(L, k) == L

\* L[k:]
Drop(L, k) == IF k >= Len(L) THEN <<>> ELSE SubSeq(L, k + 1, Len(L))

Last(L) == L[Len(L)]

\* ------------------------------------------------------------------ inputs
RhoDen == 2

\* int(round(G.order()*rho)) for rho = num/RhoDen (round: half away from 0)
initial_number(g, r) ==
    IF r.given THEN (2 * g.order * r.num + RhoDen) \div (2 * RhoDen) ELSE 1

\* random.sample(G.nodes(), k): k distinct nodes in any order
RECURSIVE Samples(_, _)
Samples(s, k) ==
    IF k = 0 THEN {<<>>}
    ELSE UNION {{<<x>> \o t : t \in Samples(s \ {x}, k - 1)} : x \in s}

NoList == [kind |-> "None", nodes |-> <<>>]
List(L) == [kind |-> "list", nodes |-> L]
Node(u) == [kind |-> "node", nodes |-> <<u>>]
NoRho == [given |-> FALSE, num |-> 0]
NoQ == [given |-> FALSE, events |-> <<>>]
Rho(n) == [given |-> TRUE, num |-> n]

Path2 == MkGraph(2, {<<1, 2>>})
Path3 == MkGraph(3, {<<1, 2>>, <<2, 3>>})
Triangle == MkGraph(3, {<<1, 2>>, <<2, 3>>, <<1, 3>>})
Empty4 == MkGraph(4, {})

\* the calls explored: graph, initial_infecteds, rho
Calls ==
    {<<Path2, List(<<>>), NoRho>>,
     <<Path2, List(<<1>>), NoRho>>,
     <<Path2, Node(2), NoRho>>,
     <<Path2, List(<<1, 1>>), NoRho>>,
     <<Path2, NoList, NoRho>>,
     <<Path2, NoList, Rho(1)>>,
     <<Path2, NoList, Rho(0)>>,
     <<Path3, NoList, Rho(1)>>,
     <<Path2, List(<<1>>), Rho(1)>>,
     <<Path3, List(<<2>>), NoRho>>,
     <<Path3, List(<<1, 3>>), NoRho>>,
     <<Triangle, List(<<1>>), NoRho>>,
     <<Empty4, List(<<1, 2, 3, 4>>), NoRho>>}

TmaxValues == {0, 1, Inf}
TauValues == {0, 1}

\* the lists a caller of fast_nonMarkov_SIR may hand over as Q
Queues ==
    {NoQ,
     [given |-> TRUE, events |-> <<>>],
     [given |-> TRUE,
      events |-> <<[time |-> 1, action |-> "recover", node |-> 1],
                   [time |-> 0, action |-> "transmit", node |-> 1]>>]}

Path10 == MkGraph(10, {<<i, i + 1>> : i \in 1..9})

Cycle4 == MkGraph(4, {<<1, 2>>, <<1, 3>>, <<2, 4>>, <<3, 4>>})

\* the calls of percolation_based_discrete_SIR_epidemic explored: graph,
\* initial_infecteds
DiscreteCalls ==
    {<<Path3, NoList>>, <<Path3, List(<<1, 3>>)>>, <<Triangle, Node(1)>>,
     <<Cycle4, List(<<1>>)>>, <<Path10, List(<<1>>)>>,
     <<Path2, List(<<1, 1>>)>>, <<Empty4, List(<<>>)>>}

\* a directed graph with the edges E on the nodes 1..n
MkDiGraph(n, E) ==
    [nodes |-> 1..n, adj |-> [u \in 1..n |-> {v \in 1..n : <<u, v>> \in E}]]

\* the percolated graphs handed to estimate_SIR_prob_size_from_dir_perc
DiGraphs ==
    {MkDiGraph(1, {}),
     MkDiGraph(2, {<<1, 2>>, <<2, 1>>}),
     MkDiGraph(3, {<<1, 2>>, <<2, 3>>}),
     MkDiGraph(3, {<<1, 2>>, <<2, 3>>, <<3, 1>>}),
     MkDiGraph(4, {<<1, 2>>, <<2, 3>>, <<3, 2>>, <<3, 4>>}),
     MkDiGraph(4, {<<1, 2>>, <<2, 1>>, <<3, 4>>, <<4, 3>>, <<2, 3>>})}

\* the calls of get_infected_nodes explored: graph, initial_infecteds
PercolationCalls ==
    {<<Path2, List(<<1>>)>>, <<Path2, NoList>>, <<Path3, Node(1)>>,
     <<Path3, List(<<1, 3>>)>>, <<Triangle, List(<<2>>)>>,
     <<Empty4, List(<<1, 2>>)>>}

Init ==
    /\ \/ /\ engine \in FastEngines \cup GillespieEngines
          /\ \E c \in Calls :
                G = c[1] /\ initial_infecteds = c[2] /\ rho = c[3]
          /\ tau \in TauValues
          /\ tmax \in TmaxValues
          /\ Q_arg \in IF engine = "fast_SIR" THEN Queues ELSE {NoQ}
          /\ p = 0 /\ H = <<>>
       \/ /\ engine = "estimate_SIR_prob_size"
          /\ G \in {Path2, Path3, Triangle, Empty4, Path10}
          /\ p \in 0..ProbDen
          /\ initial_infecteds = NoList /\ rho = NoRho /\ Q_arg = NoQ
          /\ tau = 0 /\ tmax = Inf /\ H = <<>>
       \/ /\ engine = "get_infected_nodes"
          /\ \E c \in PercolationCalls : G = c[1] /\ initial_infecteds = c[2]
          /\ tau \in TauValues
          /\ rho = NoRho /\ Q_arg = NoQ /\ p = 0 /\ tmax = Inf /\ H = <<>>
       \/ /\ engine = "estimate_SIR_prob_size_from_dir_perc"
          /\ H \in DiGraphs
          /\ G = Empty4 /\ initial_infecteds = NoList /\ rho = NoRho
          /\ Q_arg = NoQ /\ p = 0 /\ tau = 0 /\ tmax = Inf
       \/ /\ engine = "nonMarkov_directed_percolate_network"
          /\ G \in {Path2, Path3, Triangle, Empty4}
          /\ initial_infecteds = NoList /\ rho = NoRho /\ Q_arg = NoQ
          /\ p = 0 /\ tau = 0 /\ tmax = Inf /\ H = <<>>
       \/ /\ engine = "percolation_based_discrete_SIR_epidemic"
          /\ \E c \in DiscreteCalls : G = c[1] /\ initial_infecteds = c[2]
          /\ p \in 0..ProbDen
          /\ rho = NoRho /\ Q_arg = NoQ /\ tau = 0 /\ tmax = Inf /\ H = <<>>
       \/ /\ engine = "_ListDict_"
          /\ G = Empty4 /\ initial_infecteds = NoList /\ rho = NoRho
          /\ Q_arg = NoQ /\ p = 0 /\ tau = 0 /\ tmax = Inf /\ H = <<>>
       \/ /\ engine = "myQueue"
          /\ tmax \in 1..Inf
          /\ G = Empty4 /\ initial_infecteds = NoList /\ rho = NoRho
          /\ Q_arg = NoQ /\ p = 0 /\ tau = 0 /\ H = <<>>
    /\ gamma = 1
    /\ pc = "start"
    /\ raised = ""
    /\ status = <<>> /\ rec_time = <<>> /\ pred_inf_time = <<>>
    /\ Q = <<>>
    /\ times = <<>> /\ S = <<>> /\ I = <<>> /\ R = <<>>
    /\ infected = <<>> /\ infected_neighbor_count = <<>> /\ risk_group = <<>>
    /\ total_rec_rate = 0 /\ total_trans_rate = 0 /\ next_time = 0
    /\ infection_times = <<>> /\ recovery_times = <<>>
    /\ it = <<>> /\ returnval = <<>>
    /\ last_event = NoEvent
    /\ n_events = 0
    /\ history = <<>>
    /\ container = <<>> /\ container_last = <<>>
    /\ n_added = 0 /\ n_popped = 0
    /\ susceptible = <<>> /\ infecteds = <<>> /\ generations = <<>>

\* the argument check with the test dropped
BothGiven_unchecked == FALSE

\* "if rho is not None and initial_infecteds is not None: raise EoNError"
BothGiven == rho.given /\ initial_infecteds.kind # "None"

\* the lists initial_infecteds may be after the entry point resolved it
InitialLists ==
    IF initial_infecteds.kind = "None"
    THEN Samples(Nodes(G), initial_number(G, rho))
    ELSE {initial_infecteds.nodes}

\* ------------------------------------------------------------------ fast_SIR
\* _find_trans_SIR_ that lets the source transmit at its recovery time
find_trans_SIR_le(q, pit, t, source, target, st, source_rec_time, delay) ==
    IF st[target] = "S"
    THEN IF tau = 0 THEN <<q, pit, "ZeroDivisionError">>
         ELSE LET inf_time == t + delay
              IN IF inf_time <= source_rec_time /\ inf_time < pit[target]
                 THEN <<Q_add(q, tmax, Event(inf_time, "process_trans_SIR",
                                             source, target, FALSE, t)),
                        [pit EXCEPT ![target] = inf_time], "">>
                 ELSE <<q, pit, "">>
    ELSE <<q, pit, "">>

\* _find_trans_SIR_ with "if inf_time < source_rec_time"
find_trans_SIR_nopred(q, pit, t, source, target, st, source_rec_time, delay) ==
    IF st[target] = "S"
    THEN IF tau = 0 THEN <<q, pit, "ZeroDivisionError">>
         ELSE LET inf_time == t + delay
              IN IF inf_time < source_rec_time
                 THEN <<Q_add(q, tmax, Event(inf_time, "process_trans_SIR",
                                             source, target, FALSE, t)),
                        [pit EXCEPT ![target] = inf_time], "">>
                 ELSE <<q, pit, "">>
    ELSE <<q, pit, "">>

\* _find_trans_SIR_ for one target; yields <<Q, pred_inf_time, exception>>:
\* random.expovariate(0) raises ZeroDivisionError
find_trans_SIR(q, pit, t, source, target, st, source_rec_time, delay) ==
    IF st[target] = "S"
    THEN IF tau = 0 THEN <<q, pit, "ZeroDivisionError">>
         ELSE LET inf_time == t + delay
              IN IF inf_time < Min(source_rec_time, pit[target])
                 THEN <<Q_add(q, tmax, Event(inf_time, "process_trans_SIR",
                                             source, target, FALSE, t)),
                        [pit EXCEPT ![target] = inf_time], "">>
                 ELSE <<q, pit, "">>
    ELSE <<q, pit, "">>

\* "for v in G.neighbors(node): _find_trans_SIR_(...)" over the list nb
RECURSIVE find_trans_SIR_loop(_, _, _, _, _, _, _, _)
find_trans_SIR_loop(q, pit, t, source, nb, st, source_rec_time, delay) ==
    IF nb = <<>> THEN <<q, pit, "">>
    ELSE LET r == find_trans_SIR(q, pit, t, source, Head(nb), st,
                                 source_rec_time, delay[Head(nb)])
         IN IF r[3] = ""
            THEN find_trans_SIR_loop(r[1], r[2], t, source, Tail(nb), st,
                                     source_rec_time, delay)
            ELSE r

\* _process_trans_SIR_ without "if status[node] == 'S'"
process_trans_SIR_unguarded(q, event) ==
    LET time == event.time
        node == event.node
    IN \E drec \in Delays(time) :
       \E delay \in [G.adj[node] -> Delays(time)] :
         LET st == [status EXCEPT ![node] = "I"]
             rt == [rec_time EXCEPT ![node] = time + drec]
             q1 == Q_add(q, tmax, Event(rt[node], "process_rec_SIR",
                                        0, node, FALSE, time))
             r  == find_trans_SIR_loop(q1, pred_inf_time, time, node,
                                       neighbors(G, node), st, rt[node],
                                       delay)
         IN /\ status' = st
            /\ times' = Append(times, time)
            /\ S' = Append(S, Last(S) - 1)
            /\ I' = Append(I, Last(I) + 1)
            /\ R' = Append(R, Last(R))
            /\ rec_time' = rt
            /\ Q' = r[1]
            /\ pred_inf_time' = r[2]
            /\ pc' = IF r[3] = "" THEN "loop" ELSE "error"
            /\ raised' = r[3]
            /\ last_event' = Ran(event, TRUE)
            /\ n_events' = IF event.initial THEN n_events ELSE n_events + 1
            /\ history' = Append(history, Ran(event, TRUE))

\* _process_trans_SIR_(time, G, node, ...) run on the queue q the pop left
process_trans_SIR(q, event) ==
    LET time == event.time
        node == event.node
    IN IF status[node] = "S"
       THEN \E drec \in Delays(time) :
            \E delay \in [G.adj[node] -> Delays(time)] :
              LET st == [status EXCEPT ![node] = "I"]
                  rt == [rec_time EXCEPT ![node] = time + drec]
                  q1 == Q_add(q, tmax, Event(rt[node], "process_rec_SIR",
                                             0, node, FALSE, time))
                  r  == find_trans_SIR_loop(q1, pred_inf_time, time, node,
                                            neighbors(G, node), st, rt[node],
                                            delay)
              IN /\ status' = st
                 /\ times' = Append(times, time)
                 /\ S' = Append(S, Last(S) - 1)
                 /\ I' = Append(I, Last(I) + 1)
                 /\ R' = Append(R, Last(R))
                 /\ rec_time' = rt
                 /\ Q' = r[1]
                 /\ pred_inf_time' = r[2]
                 /\ pc' = IF r[3] = "" THEN "loop" ELSE "error"
                 /\ raised' = r[3]
                 /\ last_event' = Ran(event, TRUE)
                 /\ n_events' = IF event.initial THEN n_events ELSE n_events + 1
                 /\ history' = Append(history, Ran(event, TRUE))
       ELSE /\ Q' = q
            /\ last_event' = Ran(event, FALSE)
            /\ UNCHANGED <<status, times, S, I, R, rec_time, pred_inf_time,
                           pc, raised, n_events, history>>

\* _process_rec_SIR_ that leaves R as it was
process_rec_SIR_keepR(q, event) ==
    /\ times' = Append(times, event.time)
    /\ S' = Append(S, Last(S))
    /\ I' = Append(I, Last(I) - 1)
    /\ R' = Append(R, Last(R))
    /\ status' = [status EXCEPT ![event.node] = "R"]
    /\ Q' = q
    /\ last_event' = Ran(event, TRUE)
    /\ n_events' = n_events + 1
    /\ history' = Append(history, Ran(event, TRUE))
    /\ UNCHANGED <<rec_time, pred_inf_time, pc, raised>>

\* _process_rec_SIR_ that returns the node to 'S', as the SIS handler does
process_rec_SIR_resusceptible(q, event) ==
    /\ times' = Append(times, event.time)
    /\ S' = Append(S, Last(S) + 1)
    /\ I' = Append(I, Last(I) - 1)
    /\ R' = Append(R, Last(R))
    /\ status' = [status EXCEPT ![event.node] = "S"]
    /\ Q' = q
    /\ last_event' = Ran(event, TRUE)
    /\ n_events' = n_events + 1
    /\ history' = Append(history, Ran(event, TRUE))
    /\ UNCHANGED <<rec_time, pred_inf_time, pc, raised>>

\* _process_rec_SIR_(time, node, times, S, I, R, status)
process_rec_SIR(q, event) ==
    /\ times' = Append(times, event.time)
    /\ S' = Append(S, Last(S))
    /\ I' = Append(I, Last(I) - 1)
    /\ R' = Append(R, Last(R) + 1)
    /\ status' = [status EXCEPT ![event.node] = "R"]
    /\ Q' = q
    /\ last_event' = Ran(event, TRUE)
    /\ n_events' = n_events + 1
    /\ history' = Append(history, Ran(event, TRUE))
    /\ UNCHANGED <<rec_time, pred_inf_time, pc, raised>>

\* "for u in initial_infecteds: ... pred_inf_time[u] = 0; Q.add(newevent)"
RECURSIVE seed_SIR(_, _, _)
seed_SIR(q, pit, L) ==
    IF L = <<>> THEN <<q, pit>>
    ELSE seed_SIR(Q_add(q, tmax, Event(0, "process_trans_SIR", 0, Head(L),
                                       TRUE, 0)),
                  [pit EXCEPT ![Head(L)] = 0], Tail(L))

\* "if Q is None: ... else: raise EoNError" with the test dropped
QGiven_ignored == FALSE

\* "if Q is None: ... else: raise EoNError(...)"
QGiven == Q_arg.given

\* fast_SIR -> fast_nonMarkov_SIR (which a caller with a queue of its own
\* calls directly), up to the while loop
call_fast_SIR ==
    /\ pc = "start" /\ engine = "fast_SIR"
    /\ IF BothGiven \/ QGiven
       THEN \* status, rec_time and pred_inf_time were created empty and are
            \* lost with the frame; the statements after the raise never run
            /\ pc' = "error"
            /\ raised' = "EoNError"
            /\ UNCHANGED <<initial_infecteds, status, rec_time, pred_inf_time,
                           Q, times, S, I, R>>
       ELSE \E L \in InitialLists :
              LET r == seed_SIR(<<>>, [u \in Nodes(G) |-> Inf], L)
              IN /\ initial_infecteds' = [initial_infecteds EXCEPT !.nodes = L]
                 /\ status' = [u \in Nodes(G) |-> "S"]
                 /\ rec_time' = [u \in Nodes(G) |-> -1]
                 /\ times' = <<0>> /\ S' = <<G.order>> /\ I' = <<0>>
                 /\ R' = <<0>>
                 /\ Q' = r[1]
                 /\ pred_inf_time' = r[2]
                 /\ pc' = "loop"
                 /\ raised' = ""
    /\ UNCHANGED <<args, container_vars, discrete_vars,
                   gillespie_vars, history_vars, perc_vars, last_event,
                   n_events, history>>

\* "while Q: Q.pop_and_run()" of fast_nonMarkov_SIR, a transmission event
run_trans_SIR ==
    /\ pc = "loop" /\ engine = "fast_SIR" /\ Q # <<>>
    /\ heappop_item(Q).function = "process_trans_SIR"
    /\ process_trans_SIR(heappop_rest(Q), heappop_item(Q))
    /\ UNCHANGED <<args, container_vars, discrete_vars,
                   initial_infecteds, gillespie_vars, history_vars,
                   perc_vars>>

\* "while Q: Q.pop_and_run()" of fast_nonMarkov_SIR, a recovery event
run_rec_SIR ==
    /\ pc = "loop" /\ engine = "fast_SIR" /\ Q # <<>>
    /\ heappop_item(Q).function = "process_rec_SIR"
    /\ process_rec_SIR(heappop_rest(Q), heappop_item(Q))
    /\ UNCHANGED <<args, container_vars, discrete_vars,
                   initial_infecteds, gillespie_vars, history_vars,
                   perc_vars>>

\* the queue is empty: strip len(initial_infecteds) entries and return
return_fast_SIR ==
    /\ pc = "loop" /\ engine = "fast_SIR" /\ Q = <<>>
    /\ times' = Drop(times, Len(initial_infecteds.nodes))
    /\ S' = Drop(S, Len(initial_infecteds.nodes))
    /\ I' = Drop(I, Len(initial_infecteds.nodes))
    /\ R' = Drop(R, Len(initial_infecteds.nodes))
    /\ pc' = "returned"
    /\ UNCHANGED <<args, container_vars, discrete_vars,
                   initial_infecteds, status, fast_vars, gillespie_vars,
                   history_vars, perc_vars, raised, last_event, n_events,
                   history>>

\* ------------------------------------------------------------------ fast_SIS
\* _find_next_trans_SIS_ that adds the new event twice
find_next_trans_SIS_twice(q, time, source, target, st, rt, delay) ==
    IF st[source] # "I" THEN <<q, "AssertionError">>
    ELSE IF rt[target] < rt[source]
    THEN IF tau = 0 THEN <<q, "ZeroDivisionError">>
         ELSE LET transmission_time == Max(time, rt[target]) + delay
                  newEvent == Event(transmission_time, "process_trans_SIS",
                                    source, target, FALSE, time)
              IN IF transmission_time < rt[source]
                 THEN <<Q_add(Q_add(q, tmax, newEvent), tmax, newEvent), "">>
                 ELSE <<q, "">>
    ELSE <<q, "">>

\* _find_next_trans_SIS_ with "transmission_time <= rec_time[source]"
find_next_trans_SIS_le(q, time, source, target, st, rt, delay) ==
    IF st[source] # "I" THEN <<q, "AssertionError">>
    ELSE IF rt[target] < rt[source]
    THEN IF tau = 0 THEN <<q, "ZeroDivisionError">>
         ELSE LET transmission_time == Max(time, rt[target]) + delay
              IN IF transmission_time <= rt[source]
                 THEN <<Q_add(q, tmax, Event(transmission_time,
                                             "process_trans_SIS", source,
                                             target, FALSE, time)), "">>
                 ELSE <<q, "">>
    ELSE <<q, "">>

\* _find_next_trans_SIS_(Q, time, tau, source, target, status, rec_time);
\* yields <<Q, exception>>
find_next_trans_SIS(q, time, source, target, st, rt, delay) ==
    IF st[source] # "I" THEN <<q, "AssertionError">>
    ELSE IF rt[target] < rt[source]
    THEN IF tau = 0 THEN <<q, "ZeroDivisionError">>
         ELSE LET transmission_time == Max(time, rt[target]) + delay
              IN IF transmission_time < rt[source]
                 THEN <<Q_add(q, tmax, Event(transmission_time,
                                             "process_trans_SIS", source,
                                             target, FALSE, time)), "">>
                 ELSE <<q, "">>
    ELSE <<q, "">>

\* "for v in G.neighbors(target): _find_next_trans_SIS_(...)" over the list nb
RECURSIVE find_next_trans_SIS_loop(_, _, _, _, _, _, _)
find_next_trans_SIS_loop(q, time, source, nb, st, rt, delay) ==
    IF nb = <<>> THEN <<q, "">>
    ELSE LET r == find_next_trans_SIS(q, time, source, Head(nb), st, rt,
                                      delay[Head(nb)])
         IN IF r[2] = ""
            THEN find_next_trans_SIS_loop(r[1], time, source, Tail(nb), st,
                                          rt, delay)
            ELSE r

\* _process_trans_SIS_(time, G, source, target, ...) run on the queue q the
\* pop left
process_trans_SIS(q, event) ==
    LET time == event.time
        source == event.source
        target == event.node
        infect == status[target] = "S"
    IN \E drec \in Delays(time) :
       \E delay \in [G.adj[target] -> Delays(time)] :
       \E dnext \in Delays(time) :
         LET st == IF infect THEN [status EXCEPT ![target] = "I"] ELSE status
             rt == IF infect THEN [rec_time EXCEPT ![target] = time + drec]
                   ELSE rec_time
             q1 == IF infect
                   THEN Q_add(q, tmax, Event(rt[target], "process_rec_SIS",
                                             0, target, FALSE, time))
                   ELSE q
             r1 == IF infect
                   THEN find_next_trans_SIS_loop(q1, time, target,
                                                 neighbors(G, target), st, rt,
                                                 delay)
                   ELSE <<q1, "">>
             r2 == IF r1[2] = "" /\ source # 0
                   THEN find_next_trans_SIS(r1[1], time, source, target, st,
                                            rt, dnext)
                   ELSE r1
         IN \* draws that are not taken do not multiply the step
            /\ ~infect => drec = 0 /\ \A v \in G.adj[target] : delay[v] = 0
            /\ source = 0 => dnext = 0
            /\ status' = st
            /\ rec_time' = rt
            /\ I' = IF infect THEN Append(I, Last(I) + 1) ELSE I
            /\ S' = IF infect THEN Append(S, Last(S) - 1) ELSE S
            /\ times' = IF infect THEN Append(times, time) ELSE times
            /\ Q' = r2[1]
            /\ pc' = IF r2[2] = "" THEN "loop" ELSE "error"
            /\ raised' = r2[2]
            /\ last_event' = Ran(event, infect)
            /\ n_events' = IF infect /\ ~event.initial THEN n_events + 1
                           ELSE n_events
            /\ infection_times' =
                   IF infect
                   THEN [infection_times EXCEPT
                            ![target] = Append(infection_times[target], time)]
                   ELSE infection_times
            /\ history' = IF infect THEN Append(history, Ran(event, TRUE))
                          ELSE history
            /\ UNCHANGED <<R, pred_inf_time>>

\* _process_rec_SIS_ that leaves S as it was
process_rec_SIS_keepS(q, event) ==
    /\ times' = Append(times, event.time)
    /\ S' = Append(S, Last(S))
    /\ I' = Append(I, Last(I) - 1)
    /\ status' = [status EXCEPT ![event.node] = "S"]
    /\ Q' = q
    /\ last_event' = Ran(event, TRUE)
    /\ n_events' = n_events + 1
    /\ history' = Append(history, Ran(event, TRUE))
    /\ UNCHANGED <<R, rec_time, pred_inf_time, pc, raised>>

\* _process_rec_SIS_(time, node, times, S, I, status)
process_rec_SIS(q, event) ==
    /\ times' = Append(times, event.time)
    /\ S' = Append(S, Last(S) + 1)
    /\ I' = Append(I, Last(I) - 1)
    /\ status' = [status EXCEPT ![event.node] = "S"]
    /\ Q' = q
    /\ last_event' = Ran(event, TRUE)
    /\ n_events' = n_events + 1
    /\ history' = Append(history, Ran(event, TRUE))
    /\ UNCHANGED <<R, rec_time, pred_inf_time, pc, raised>>

\* "for u in initial_infecteds: ... Q.add(newevent)" of fast_SIS
RECURSIVE seed_SIS(_, _)
seed_SIS(q, L) ==
    IF L = <<>> THEN q
    ELSE seed_SIS(Q_add(q, tmax, Event(0, "process_trans_SIS", 0, Head(L),
                                       TRUE, 0)), Tail(L))

\* fast_SIS up to the while loop
call_fast_SIS ==
    /\ pc = "start" /\ engine = "fast_SIS"
    /\ IF BothGiven
       THEN /\ pc' = "error"
            /\ raised' = "EoNError"
            /\ UNCHANGED <<initial_infecteds, status, rec_time, Q, times, S, I,
                           history_vars>>
       ELSE \E L \in InitialLists :
                 /\ initial_infecteds' = [initial_infecteds EXCEPT !.nodes = L]
                 /\ times' = <<0>> /\ S' = <<G.order>> /\ I' = <<0>>
                 /\ infection_times' = [u \in Nodes(G) |-> <<>>]
                 /\ recovery_times' = [u \in Nodes(G) |-> <<>>]
                 /\ status' = [u \in Nodes(G) |-> "S"]
                 /\ rec_time' = [u \in Nodes(G) |-> -1]
                 /\ Q' = seed_SIS(<<>>, L)
                 /\ pc' = "loop"
                 /\ raised' = ""
    /\ UNCHANGED <<args, container_vars, discrete_vars,
                   R, pred_inf_time, gillespie_vars, perc_vars,
                   last_event, n_events, history>>

\* "while Q: Q.pop_and_run()" of fast_SIS, a transmission event
run_trans_SIS ==
    /\ pc = "loop" /\ engine = "fast_SIS" /\ Q # <<>>
    /\ Len(times) < MaxSamples
    /\ heappop_item(Q).function = "process_trans_SIS"
    /\ process_trans_SIS(heappop_rest(Q), heappop_item(Q))
    /\ UNCHANGED <<args, container_vars, discrete_vars,
                   initial_infecteds, gillespie_vars, recovery_times,
                   perc_vars>>

\* "while Q: Q.pop_and_run()" of fast_SIS, a recovery event
run_rec_SIS ==
    /\ pc = "loop" /\ engine = "fast_SIS" /\ Q # <<>>
    /\ Len(times) < MaxSamples
    /\ heappop_item(Q).function = "process_rec_SIS"
    /\ process_rec_SIS(heappop_rest(Q), heappop_item(Q))
    /\ UNCHANGED <<args, container_vars, discrete_vars,
                   initial_infecteds, gillespie_vars, history_vars,
                   perc_vars>>

\* the queue is empty: strip len(initial_infecteds) entries and return
return_fast_SIS ==
    /\ pc = "loop" /\ engine = "fast_SIS" /\ Q = <<>>
    /\ times' = Drop(times, Len(initial_infecteds.nodes))
    /\ S' = Drop(S, Len(initial_infecteds.nodes))
    /\ I' = Drop(I, Len(initial_infecteds.nodes))
    /\ pc' = "returned"
    /\ UNCHANGED <<args, container_vars, discrete_vars,
                   initial_infecteds, status, R, fast_vars,
                   gillespie_vars, history_vars, perc_vars, raised,
                   last_event, n_events, history>>

\* ------------------------------------------------------------------ _ListDict_
\* items is the list, item_to_position the dict (positions count from 0)
EmptyListDict == [items |-> <<>>, item_to_position |-> <<>>]

\* _ListDict_.add(item)
LD_add(ld, item) ==
    IF item \in DOMAIN ld.item_to_position THEN ld
    ELSE [items |-> Append(ld.items, item),
          item_to_position |->
              [x \in DOMAIN ld.item_to_position \cup {item} |->
                  IF x = item THEN Len(ld.items)
                  ELSE ld.item_to_position[x]]]

\* _ListDict_.remove without "self.item_to_position[last_item] = position"
LD_remove_unindexed(ld, item) ==
    LET position  == ld.item_to_position[item]
        popped    == [x \in DOMAIN ld.item_to_position \ {item} |->
                         ld.item_to_position[x]]
        last_item == Last(ld.items)
        rest      == SubSeq(ld.items, 1, Len(ld.items) - 1)
    IN IF position # Len(rest)
       THEN [items |-> [rest EXCEPT ![position + 1] = last_item],
             item_to_position |-> popped]
       ELSE [items |-> rest, item_to_position |-> popped]

\* _ListDict_.remove without the swap: the last item leaves the list
LD_remove_last(ld, item) ==
    [items |-> SubSeq(ld.items, 1, Len(ld.items) - 1),
     item_to_position |-> [x \in DOMAIN ld.item_to_position \ {item} |->
                              ld.item_to_position[x]]]

\* _ListDict_.remove(item) for an item that is a key of item_to_position
\* (for any other item item_to_position.pop raises KeyError)
LD_remove(ld, item) ==
    LET position  == ld.item_to_position[item]
        popped    == [x \in DOMAIN ld.item_to_position \ {item} |->
                         ld.item_to_position[x]]
        last_item == Last(ld.items)
        rest      == SubSeq(ld.items, 1, Len(ld.items) - 1)
    IN IF position # Len(rest)
       THEN [items |-> [rest EXCEPT ![position + 1] = last_item],
             item_to_position |->
                 [x \in DOMAIN popped \cup {last_item} |->
                     IF x = last_item THEN position ELSE popped[x]]]
       ELSE [items |-> rest, item_to_position |-> popped]

\* ------------------------------------------------------------------ Gillespie
\* risk_group is a defaultdict of _ListDict_: reading a key creates it
RG(rg, k) == IF k \in DOMAIN rg THEN rg[k] ELSE EmptyListDict

RG_set(rg, k, ld) == [x \in DOMAIN rg \cup {k} |-> IF x = k THEN ld ELSE rg[x]]

\* the pair of dicts the bookkeeping loops work on, with the exception raised
GS(rg, inc, err) == [rg |-> rg, inc |-> inc, err |-> err]

\* risk_group[k].remove(item)
RG_remove(gs, k, item) ==
    IF item \in DOMAIN RG(gs.rg, k).item_to_position
    THEN GS(RG_set(gs.rg, k, LD_remove(RG(gs.rg, k), item)), gs.inc, gs.err)
    ELSE GS(RG_set(gs.rg, k, RG(gs.rg, k)), gs.inc, "KeyError")

\* risk_group[k].add(item)
RG_add(gs, k, item) ==
    GS(RG_set(gs.rg, k, LD_add(RG(gs.rg, k), item)), gs.inc, gs.err)

\* sum(n*len(risk_group[n]) for n in risk_group.keys())
RECURSIVE SumOver(_, _)
SumOver(rg, keys) ==
    IF keys = {} THEN 0
    ELSE LET n == CHOOSE x \in keys : TRUE
         IN n * Len(rg[n].items) + SumOver(rg, keys \ {n})

risk_sum(rg) == SumOver(rg, DOMAIN rg)

\* the body of "for neighbor in G.neighbors(node)" in _Gillespie_Initialize_
initialize_neighbor(gs, st, neighbor) ==
    IF st[neighbor] = "S"
    THEN LET c  == gs.inc[neighbor] + 1
             g1 == GS(gs.rg, [gs.inc EXCEPT ![neighbor] = c], gs.err)
             g2 == IF c > 1 THEN RG_remove(g1, c - 1, neighbor) ELSE g1
         IN IF g2.err # "" THEN g2 ELSE RG_add(g2, c, neighbor)
    ELSE gs

\* the body of "for neighbor in G.neighbors(recipient)" in _Gillespie_Infect_
infect_neighbor(gs, st, neighbor) ==
    IF st[neighbor] = "S"
    THEN LET c  == gs.inc[neighbor]
             g1 == IF c > 0 THEN RG_remove(gs, c, neighbor) ELSE gs
             g2 == GS(g1.rg, [g1.inc EXCEPT ![neighbor] = c + 1], g1.err)
         IN IF g1.err # "" THEN g1 ELSE RG_add(g2, c + 1, neighbor)
    ELSE gs

\* lower_risk without "if infected_neighbor_count[neighbor]>0: ...add(neighbor)"
lower_risk_dropped(gs, neighbor) ==
    LET c  == gs.inc[neighbor]
        g1 == RG_remove(gs, c, neighbor)
    IN IF g1.err # "" THEN g1
       ELSE GS(g1.rg, [g1.inc EXCEPT ![neighbor] = c - 1], g1.err)

\* risk_group[infected_neighbor_count[neighbor]].remove(neighbor);
\* infected_neighbor_count[neighbor] -= 1; add it back if still at risk
lower_risk(gs, neighbor) ==
    LET c  == gs.inc[neighbor]
        g1 == RG_remove(gs, c, neighbor)
        g2 == GS(g1.rg, [g1.inc EXCEPT ![neighbor] = c - 1], g1.err)
    IN IF g1.err # "" THEN g1
       ELSE IF c - 1 > 0 THEN RG_add(g2, c - 1, neighbor) ELSE g2

\* the body of "for neighbor in G.neighbors(recovering_node)" in
\* _Gillespie_Recover_SIR_
recover_SIR_neighbor(gs, st, neighbor) ==
    IF st[neighbor] = "S" THEN lower_risk(gs, neighbor) ELSE gs

\* recover_SIS_neighbor without the count of the infected neighbours
recover_SIS_neighbor_uncounted(gs, st, node, neighbor) ==
    IF neighbor = node \/ st[neighbor] = "I" THEN gs
    ELSE lower_risk(gs, neighbor)

\* the body of "for neighbor in G.neighbors(recovering_node)" in
\* _Gillespie_Recover_SIS_
recover_SIS_neighbor(gs, st, node, neighbor) ==
    IF neighbor = node THEN gs
    ELSE IF st[neighbor] = "I"
    THEN GS(gs.rg, [gs.inc EXCEPT ![node] = gs.inc[node] + 1], gs.err)
    ELSE lower_risk(gs, neighbor)

\* a loop over the list nb with the body named by kind; an exception ends it
RECURSIVE neighbor_loop(_, _, _, _, _)
neighbor_loop(kind, gs, st, node, nb) ==
    IF nb = <<>> \/ gs.err # "" THEN gs
    ELSE neighbor_loop(kind,
             CASE kind = "initialize" -> initialize_neighbor(gs, st, Head(nb))
               [] kind = "infect" -> infect_neighbor(gs, st, Head(nb))
               [] kind = "recover_SIR" -> recover_SIR_neighbor(gs, st, Head(nb))
               [] kind = "recover_SIS" ->
                      recover_SIS_neighbor(gs, st, node, Head(nb)),
             st, node, Tail(nb))

\* "for node in initial_infecteds: status[node]='I'"
RECURSIVE mark_infected(_, _)
mark_infected(st, L) ==
    IF L = <<>> THEN st
    ELSE mark_infected([st EXCEPT ![Head(L)] = "I"], Tail(L))

\* "for node in initial_infecteds: for neighbor in G.neighbors(node): ..."
RECURSIVE initialize_loop(_, _, _)
initialize_loop(gs, st, L) ==
    IF L = <<>> \/ gs.err # "" THEN gs
    ELSE initialize_loop(neighbor_loop("initialize", gs, st, Head(L),
                                       neighbors(G, Head(L))), st, Tail(L))

\* "for node in initial_infecteds: infection_times[node].append(0)"
RECURSIVE append_zero(_, _)
append_zero(it0, L) ==
    IF L = <<>> THEN it0
    ELSE append_zero([it0 EXCEPT ![Head(L)] = Append(it0[Head(L)], 0)],
                     Tail(L))

\* Gillespie_SIR / Gillespie_SIS up to the while loop: the argument check,
\* _Gillespie_Initialize_, the rates and the first next_time
call_Gillespie ==
    /\ pc = "start" /\ engine \in GillespieEngines
    /\ IF BothGiven
       THEN /\ pc' = "error"
            /\ raised' = "EoNError"
            /\ UNCHANGED <<initial_infecteds, status, times, S, I, R,
                           gillespie_vars, history_vars>>
       ELSE \E L \in InitialLists :
            \E d \in Delays(0) :
              LET st == mark_infected([u \in Nodes(G) |-> "S"], L)
                  gs == initialize_loop(GS(<<>>, [u \in Nodes(G) |-> 0], ""),
                                        st, L)
                  trans_rate == tau * risk_sum(gs.rg)
                  rec_rate == gamma * Len(L)
                  total_rate == rec_rate + trans_rate
              IN /\ initial_infecteds' = [initial_infecteds EXCEPT !.nodes = L]
                 /\ times' = <<0>>
                 /\ S' = <<G.order - Len(L)>>
                 /\ I' = <<Len(L)>>
                 /\ R' = IF engine = "Gillespie_SIR" THEN <<0>> ELSE <<>>
                 /\ status' = st
                 /\ infected' = L
                 /\ infected_neighbor_count' = gs.inc
                 /\ risk_group' = gs.rg
                 /\ total_trans_rate' = trans_rate
                 /\ total_rec_rate' = rec_rate
                 /\ infection_times' =
                        IF gs.err # "" THEN [u \in Nodes(G) |-> <<>>]
                        ELSE append_zero([u \in Nodes(G) |-> <<>>], L)
                 /\ recovery_times' = [u \in Nodes(G) |-> <<>>]
                 /\ IF gs.err # ""
                    THEN d = 0 /\ next_time' = 0 /\ pc' = "error"
                         /\ raised' = gs.err
                    ELSE IF total_rate = 0
                    THEN d = 0 /\ next_time' = 0 /\ pc' = "error"
                         /\ raised' = "ZeroDivisionError"
                    ELSE next_time' = d /\ pc' = "loop" /\ raised' = ""
    /\ UNCHANGED <<args, container_vars, discrete_vars,
                   fast_vars, perc_vars, last_event, n_events, history>>

\* the end of an iteration of the while loop: the rates and next_time
\* (rec_rate is total_rec_rate as the branch taken left it)
next_iteration(rec_rate, rg, err, d) ==
    LET trans_rate == tau * risk_sum(rg)
        total_rate == rec_rate + trans_rate
    IN /\ total_rec_rate' = rec_rate
       /\ IF err # ""
          THEN /\ d = 0 /\ pc' = "error" /\ raised' = err
               /\ UNCHANGED <<total_trans_rate, next_time>>
          ELSE /\ pc' = "loop" /\ raised' = ""
               /\ total_trans_rate' = trans_rate
               /\ IF total_rate > 0 THEN next_time' = next_time + d
                  ELSE /\ d = 0
                       /\ next_time' = IF engine = "Gillespie_SIS" THEN Inf
                                       ELSE next_time

\* "while next_time<tmax"
LoopGuard_time == next_time < tmax

\* "while next_time<tmax and infected"
LoopGuard == next_time < tmax /\ infected # <<>>

\* the swap without infected.pop() after it
swap_pop_unpopped(L, index) == [L EXCEPT ![index + 1] = Last(L)]

\* infected.pop() without the swap before it
swap_pop_noswap(L, index) == SubSeq(L, 1, Len(L) - 1)

\* "infected[index], infected[-1] = infected[-1], infected[index];
\*  recovering_node = infected.pop()": the list left behind
swap_pop(L, index) ==
    SubSeq([L EXCEPT ![index + 1] = Last(L)], 1, Len(L) - 1)

\* what an iteration of the while loop did, in the form of an event
Infected(recipient) ==
    [NoEvent EXCEPT !.time = next_time, !.function = "Gillespie_Infect",
                    !.node = recipient, !.at = next_time, !.changed = TRUE]

Recovered(recovering_node) ==
    [NoEvent EXCEPT !.time = next_time, !.function = "Gillespie_Recover",
                    !.node = recovering_node, !.at = next_time,
                    !.changed = TRUE]

\* an iteration with r >= total_rec_rate: _Gillespie_Infect_
Gillespie_Infect ==
    /\ pc = "loop" /\ engine \in GillespieEngines /\ LoopGuard
    /\ engine = "Gillespie_SIS" => Len(times) < MaxSamples
    /\ total_trans_rate > 0 \/ total_rec_rate + total_trans_rate = 0
    /\ IF risk_sum(risk_group) = 0
       THEN \* no stratum has weight: choose_random reads an empty list
            /\ pc' = "error" /\ raised' = "IndexError"
            /\ UNCHANGED <<status, times, S, I, R, gillespie_vars,
                           history_vars, last_event, n_events, history>>
       ELSE \E n \in {k \in DOMAIN risk_group :
                          k * Len(risk_group[k].items) > 0} :
            \E recipient \in Range(risk_group[n].items) :
            \E d \in Delays(next_time) :
              IF status[recipient] # "S"
              THEN /\ d = 0 /\ pc' = "error" /\ raised' = "AssertionError"
                   /\ UNCHANGED <<status, times, S, I, R, gillespie_vars,
                                  history_vars, last_event, n_events,
                                  history>>
              ELSE LET st == [status EXCEPT ![recipient] = "I"]
                       g0 == RG_remove(GS(risk_group, infected_neighbor_count,
                                          ""), n, recipient)
                       gs == neighbor_loop("infect", g0, st, recipient,
                                           neighbors(G, recipient))
                   IN /\ infected' = Append(infected, recipient)
                      /\ status' = st
                      /\ S' = Append(S, Last(S) - 1)
                      /\ I' = Append(I, Last(I) + 1)
                      /\ times' = Append(times, next_time)
                      /\ R' = IF engine = "Gillespie_SIR"
                              THEN Append(R, Last(R)) ELSE R
                      /\ risk_group' = gs.rg
                      /\ infected_neighbor_count' = gs.inc
                      /\ next_iteration(total_rec_rate, gs.rg, gs.err, d)
                      /\ infection_times' =
                             [infection_times EXCEPT
                                 ![recipient] = Append(infection_times[recipient],
                                                       next_time)]
                      /\ last_event' = Infected(recipient)
                      /\ n_events' = n_events + 1
                      /\ history' = Append(history, Infected(recipient))
    /\ UNCHANGED <<args, container_vars, discrete_vars,
                   initial_infecteds, fast_vars, recovery_times,
                   perc_vars>>

\* an iteration with r < total_rec_rate: _Gillespie_Recover_SIR_ or
\* _Gillespie_Recover_SIS_
Gillespie_Recover ==
    /\ pc = "loop" /\ engine \in GillespieEngines /\ LoopGuard
    /\ engine = "Gillespie_SIS" => Len(times) < MaxSamples
    /\ total_rec_rate > 0
    /\ IF Last(I) # Len(infected)
       THEN /\ pc' = "error" /\ raised' = "AssertionError"
            /\ UNCHANGED <<status, times, S, I, R, gillespie_vars,
                           history_vars, last_event, n_events, history>>
       ELSE \E index \in 0..(Last(I) - 1) :
            \E d \in Delays(next_time) :
              LET SIR == engine = "Gillespie_SIR"
                  recovering_node == infected[index + 1]
                  st == [status EXCEPT
                            ![recovering_node] = IF SIR THEN "R" ELSE "S"]
                  g0 == GS(risk_group,
                           IF SIR THEN infected_neighbor_count
                           ELSE [infected_neighbor_count EXCEPT
                                    ![recovering_node] = 0], "")
                  g1 == neighbor_loop(IF SIR THEN "recover_SIR"
                                      ELSE "recover_SIS", g0, st,
                                      recovering_node,
                                      neighbors(G, recovering_node))
                  gs == IF ~SIR /\ g1.err = "" /\ g1.inc[recovering_node] > 0
                        THEN RG_add(g1, g1.inc[recovering_node],
                                    recovering_node)
                        ELSE g1
              IN /\ infected' = swap_pop(infected, index)
                 /\ I' = Append(I, Last(I) - 1)
                 /\ status' = st
                 /\ S' = Append(S, IF SIR THEN Last(S) ELSE Last(S) + 1)
                 /\ R' = IF SIR THEN Append(R, Last(R) + 1) ELSE R
                 /\ times' = Append(times, next_time)
                 /\ risk_group' = gs.rg
                 /\ infected_neighbor_count' = gs.inc
                 /\ next_iteration(gamma * (Last(I) - 1), gs.rg, gs.err, d)
                 /\ recovery_times' =
                        [recovery_times EXCEPT
                            ![recovering_node] =
                                Append(recovery_times[recovering_node],
                                       next_time)]
                 /\ last_event' = Recovered(recovering_node)
                 /\ n_events' = n_events + 1
                 /\ history' = Append(history, Recovered(recovering_node))
    /\ UNCHANGED <<args, container_vars, discrete_vars,
                   initial_infecteds, fast_vars, infection_times,
                   perc_vars>>

\* the while loop of Gillespie_SIR / Gillespie_SIS ends: return the lists
return_Gillespie ==
    /\ pc = "loop" /\ engine \in GillespieEngines /\ ~LoopGuard
    /\ pc' = "returned"
    /\ UNCHANGED <<args, container_vars, discrete_vars,
                   initial_infecteds, status, times, S, I, R, fast_vars,
                   gillespie_vars, history_vars, perc_vars, raised,
                   last_event, n_events, history>>

\* ------------------------------------------------ the containers on their own
\* the items a caller adds to and removes from a _ListDict_
Items == 1..MaxItems

\* what container_last holds after an operation
Op(op, item) == [op |-> op, item |-> item, before |-> container]

\* _ListDict_()
ListDict_init ==
    /\ pc = "start" /\ engine = "_ListDict_"
    /\ container' = EmptyListDict
    /\ container_last' = [op |-> "init", item |-> 0, before |-> EmptyListDict]
    /\ pc' = "loop"
    /\ UNCHANGED <<args, discrete_vars, initial_infecteds, status, times,
                   S, I, R, fast_vars,
                   gillespie_vars, history_vars, perc_vars, raised,
                   last_event, n_events, history, n_added, n_popped>>

\* container.add(item), for any item
ListDict_add ==
    /\ pc = "loop" /\ engine = "_ListDict_"
    /\ \E item \in Items :
          /\ container' = LD_add(container, item)
          /\ container_last' = Op("add", item)
    /\ raised' = ""
    /\ UNCHANGED <<args, discrete_vars, initial_infecteds, status, times,
                   S, I, R, fast_vars,
                   gillespie_vars, history_vars, perc_vars, pc,
                   last_event, n_events, history, n_added, n_popped>>

\* container.remove(item), for any item: item_to_position.pop(item) raises
\* KeyError for an item that is not a key, before anything is changed; the
\* caller catches it and goes on
ListDict_remove ==
    /\ pc = "loop" /\ engine = "_ListDict_"
    /\ \E item \in Items :
          /\ container_last' = Op("remove", item)
          /\ IF item \in DOMAIN container.item_to_position
             THEN container' = LD_remove(container, item) /\ raised' = ""
             ELSE container' = container /\ raised' = "KeyError"
    /\ UNCHANGED <<args, discrete_vars, initial_infecteds, status, times,
                   S, I, R, fast_vars,
                   gillespie_vars, history_vars, perc_vars, pc,
                   last_event, n_events, history, n_added, n_popped>>

\* Q = myQueue(tmax)
myQueue_init ==
    /\ pc = "start" /\ engine = "myQueue"
    /\ Q' = <<>>
    /\ pc' = "loop"
    /\ UNCHANGED <<args, discrete_vars, initial_infecteds, status, times,
                   S, I, R, rec_time,
                   pred_inf_time, gillespie_vars, history_vars, perc_vars,
                   raised, last_event, n_events, history, container_vars>>

\* Q.add(Event(time, function, args)), for any time; args is the number of
\* the event among those pushed
myQueue_add ==
    /\ pc = "loop" /\ engine = "myQueue" /\ n_added < MaxAdds
    /\ \E time \in 0..MaxTime :
          LET event == Event(time, "function", 0, n_added + 1, FALSE, 0)
          IN /\ Q' = Q_add(Q, tmax, event)
             /\ n_added' = IF Q' = Q THEN n_added ELSE n_added + 1
    /\ UNCHANGED <<args, discrete_vars, initial_infecteds, status, times,
                   S, I, R, rec_time,
                   pred_inf_time, gillespie_vars, history_vars, perc_vars,
                   pc, raised, last_event, n_events, history, container,
                   container_last, n_popped>>

\* Q.pop_and_run() on a queue that is not empty: heappop, then
\* event.function(event.time, *event.args)
myQueue_pop_and_run ==
    /\ pc = "loop" /\ engine = "myQueue" /\ Q # <<>>
    /\ Q' = heappop_rest(Q)
    /\ last_event' = Ran(heappop_item(Q), TRUE)
    /\ history' = Append(history, Ran(heappop_item(Q), TRUE))
    /\ n_popped' = n_popped + 1
    /\ UNCHANGED <<args, discrete_vars, initial_infecteds, status, times,
                   S, I, R, rec_time,
                   pred_inf_time, gillespie_vars, history_vars, perc_vars,
                   pc, raised, n_events, container, container_last, n_added>>

\* ------------------------------------------------------------------ networkx
\* H = nx.Graph() or nx.DiGraph(): the nodes and, for each, its neighbours
\* (its successors in a DiGraph)
EmptyGraph == [nodes |-> {}, adj |-> <<>>]

\* H.add_node(u)
add_node(h, u) ==
    IF u \in h.nodes THEN h
    ELSE [nodes |-> h.nodes \cup {u},
          adj   |-> [x \in h.nodes \cup {u} |-> IF x = u THEN {} ELSE h.adj[x]]]

\* a graph built without H.add_nodes_from(G.nodes())
add_nodes_from_none(h, g) == h

\* H.add_nodes_from(G.nodes())
add_nodes_from(h, g) ==
    [nodes |-> h.nodes \cup Nodes(g),
     adj   |-> [x \in h.nodes \cup Nodes(g) |->
                   IF x \in h.nodes THEN h.adj[x] ELSE {}]]

\* DiGraph.add_edge(u, v): both ends become nodes, v a successor of u
DiGraph_add_edge(h, u, v) ==
    LET h2 == add_node(add_node(h, u), v)
    IN [h2 EXCEPT !.adj[u] = @ \cup {v}]

\* Graph.add_edge(u, v)
Graph_add_edge(h, u, v) == DiGraph_add_edge(DiGraph_add_edge(h, u, v), v, u)

\* the nodes at distance 0 or more from a node of seen
RECURSIVE Reach(_, _)
Reach(adj, seen) ==
    LET nxt == seen \cup UNION {adj[u] : u \in seen}
    IN IF nxt = seen THEN seen ELSE Reach(adj, nxt)

\* nx.descendants with the source left in the set
descendants_with_source(adj, source) == Reach(adj, {source})

\* nx.descendants(G, source): the nodes shortest_path_length finds from
\* source, "- set([source])"
descendants(adj, source) == Reach(adj, {source}) \ {source}

\* nx.ancestors(G, source): the same on the reversed graph
ancestors(adj, source) ==
    {u \in DOMAIN adj : source \in Reach(adj, {u})} \ {source}

\* nx.connected_components(H)
connected_components(h) == {Reach(h.adj, {u}) : u \in h.nodes}

\* nx.strongly_connected_components(H)
strongly_connected_components(h) ==
    {{v \in Reach(h.adj, {u}) : u \in Reach(h.adj, {v})} : u \in h.nodes}

\* the sets max(..., key = len) may return
Largest(sets) == {c \in sets : \A d \in sets : Cardinality(d) <= Cardinality(c)}

\* G.edges_iter(): every edge once, from its smaller end
RECURSIVE edges_iter(_, _)
edges_iter(g, u) ==
    IF u > g.order THEN <<>>
    ELSE LET nb == SetToSeq({v \in g.adj[u] : v > u})
         IN [i \in 1..Len(nb) |-> <<u, nb[i]>>] \o edges_iter(g, u + 1)

\* float(a)/b, kept as the quotient it rounds
Frac(a, b) == [num |-> a, den |-> b]

\* ------------------------------------------------------------------ percolation
\* "if random.random()<p" with <= for <
edge_kept_le(r, prob) == r <= prob

\* "if random.random()<p"
edge_kept(r, prob) == r < prob

\* estimate_SIR_prob_size -> percolate_network up to its loop
call_estimate_SIR_prob_size ==
    /\ pc = "start" /\ engine = "estimate_SIR_prob_size"
    /\ H' = add_nodes_from(EmptyGraph, G)
    /\ it' = edges_iter(G, 1)
    /\ pc' = "loop"
    /\ UNCHANGED <<args, container_vars, discrete_vars,
                   initial_infecteds, raised, status, fast_vars, times,
                   S, I, R, gillespie_vars, history_vars, returnval,
                   last_event, n_events, history>>

\* the entry points that call percolate_network(G, p)
percolate_network_callers ==
    {"estimate_SIR_prob_size", "percolation_based_discrete_SIR_epidemic"}

\* "for edge in G.edges_iter(): if random.random()<p: H.add_edge(*edge)"
percolate_edge ==
    /\ pc = "loop" /\ engine \in percolate_network_callers /\ it # <<>>
    /\ \E r \in 0..(ProbDen - 1) :
         H' = IF edge_kept(r, p)
              THEN Graph_add_edge(H, Head(it)[1], Head(it)[2]) ELSE H
    /\ it' = Tail(it)
    /\ UNCHANGED <<args, container_vars, discrete_vars,
                   initial_infecteds, pc, raised, status, fast_vars,
                   times, S, I, R, gillespie_vars, history_vars, returnval,
                   last_event, n_events, history>>

\* percolate_network returns H; the largest component over G.order()
return_estimate_SIR_prob_size ==
    /\ pc = "loop" /\ engine = "estimate_SIR_prob_size" /\ it = <<>>
    /\ \E CC \in Largest(connected_components(H)) :
         LET size == Cardinality(CC)
             val  == Frac(size, G.order)
         IN returnval' = <<val, val>>
    /\ pc' = "returned"
    /\ UNCHANGED <<args, container_vars, discrete_vars,
                   initial_infecteds, raised, status, fast_vars, times,
                   S, I, R, gillespie_vars, history_vars, H, it, last_event,
                   n_events, history>>

\* "if G.has_node(source): source_nodes = {source} else: source_nodes =
\* set(source)" for a source given as initial_infecteds is
source_set(source) == Range(source.nodes)

\* _out_component_(G, source)
out_component(adj, source) ==
    UNION {descendants(adj, node) : node \in source_set(source)}

\* _in_component_(G, target)
in_component(adj, target) ==
    UNION {ancestors(adj, node) : node \in source_set(target)}

\* get_infected_nodes up to the loop of directed_percolate_network
call_get_infected_nodes ==
    /\ pc = "start" /\ engine = "get_infected_nodes"
    /\ \E u \in Nodes(G) :
         initial_infecteds' =
             IF initial_infecteds.kind = "None"
             THEN [initial_infecteds EXCEPT !.nodes = <<u>>]
             ELSE initial_infecteds
    /\ H' = EmptyGraph
    /\ it' = SetToSeq(Nodes(G))
    /\ pc' = "loop"
    /\ UNCHANGED <<args, container_vars, discrete_vars,
                   raised, status, fast_vars, times, S, I, R,
                   gillespie_vars, history_vars, returnval, last_event,
                   n_events, history>>

\* "for v in G.neighbors(u): time_to_infect = random.expovariate(tau); if
\* time_to_infect<duration: H.add_edge(u,v,...)" over the list nb
RECURSIVE percolate_neighbors(_, _, _, _, _)
percolate_neighbors(h, u, nb, duration, time_to_infect) ==
    IF nb = <<>> THEN h
    ELSE percolate_neighbors(
             IF time_to_infect[Head(nb)] < duration
             THEN DiGraph_add_edge(h, u, Head(nb)) ELSE h,
             u, Tail(nb), duration, time_to_infect)

\* one pass of "for u in G.nodes()" in directed_percolate_network
percolate_node ==
    /\ pc = "loop" /\ engine = "get_infected_nodes" /\ it # <<>>
    /\ LET u == Head(it)
       IN \E duration \in 0..MaxDelay :
          \E time_to_infect \in [G.adj[u] -> 0..MaxDelay] :
             IF tau = 0 /\ G.adj[u] # {}
             THEN /\ duration = 0 /\ \A v \in G.adj[u] : time_to_infect[v] = 0
                  /\ H' = add_node(H, u)
                  /\ pc' = "error" /\ raised' = "ZeroDivisionError"
             ELSE /\ H' = percolate_neighbors(add_node(H, u), u,
                                              neighbors(G, u), duration,
                                              time_to_infect)
                  /\ UNCHANGED <<pc, raised>>
    /\ it' = Tail(it)
    /\ UNCHANGED <<args, container_vars, discrete_vars,
                   initial_infecteds, status, fast_vars, times, S, I, R,
                   gillespie_vars, history_vars, returnval, last_event,
                   n_events, history>>

\* "infected_nodes = _out_component_(G, initial_infecteds)"
return_get_infected_nodes ==
    /\ pc = "loop" /\ engine = "get_infected_nodes" /\ it = <<>>
    /\ returnval' = out_component(G.adj, initial_infecteds)
    /\ pc' = "returned"
    /\ UNCHANGED <<args, container_vars, discrete_vars,
                   initial_infecteds, raised, status, fast_vars, times,
                   S, I, R, gillespie_vars, history_vars, H, it, last_event,
                   n_events, history>>

\* estimate_SIR_prob_size_from_dir_perc(H): u is list(Hscc)[0], whichever
\* member the set lists first
call_estimate_SIR_prob_size_from_dir_perc ==
    /\ pc = "start" /\ engine = "estimate_SIR_prob_size_from_dir_perc"
    /\ \E Hscc \in Largest(strongly_connected_components(H)) :
       \E u \in Hscc :
         LET inC  == in_component(H.adj, Node(u))
             outC == out_component(H.adj, Node(u))
             N    == Cardinality(H.nodes)
         IN returnval' = <<Frac(Cardinality(inC), N),
                           Frac(Cardinality(outC), N)>>
    /\ pc' = "returned"
    /\ UNCHANGED <<args, container_vars, discrete_vars,
                   initial_infecteds, raised, status, fast_vars, times,
                   S, I, R, gillespie_vars, history_vars, H, it, last_event,
                   n_events, history>>

\* nonMarkov_directed_percolate_network up to its loop
call_nonMarkov_directed_percolate_network ==
    /\ pc = "start" /\ engine = "nonMarkov_directed_percolate_network"
    /\ H' = EmptyGraph
    /\ it' = SetToSeq(Nodes(G))
    /\ pc' = "loop"
    /\ UNCHANGED <<args, container_vars, discrete_vars,
                   initial_infecteds, raised, status,
                   fast_vars, times, S, I, R, gillespie_vars, history_vars,
                   returnval, last_event, n_events, history>>

\* "for v in G.neighbors(u): if transmission(xi[u],zeta[v]): H.add_edge(u,v)"
\* over the list nb; transmits[v] is what the caller's function returned
RECURSIVE transmit_neighbors(_, _, _, _)
transmit_neighbors(h, u, nb, transmits) ==
    IF nb = <<>> THEN h
    ELSE transmit_neighbors(IF transmits[Head(nb)]
                            THEN DiGraph_add_edge(h, u, Head(nb)) ELSE h,
                            u, Tail(nb), transmits)

\* one pass of "for u in G.nodes()" in nonMarkov_directed_percolate_network
transmit_node ==
    /\ pc = "loop" /\ engine = "nonMarkov_directed_percolate_network"
    /\ it # <<>>
    /\ \E transmits \in [G.adj[Head(it)] -> BOOLEAN] :
          H' = transmit_neighbors(add_node(H, Head(it)), Head(it),
                                  neighbors(G, Head(it)), transmits)
    /\ it' = Tail(it)
    /\ UNCHANGED <<args, container_vars, discrete_vars,
                   initial_infecteds, pc, raised,
                   status, fast_vars, times, S, I, R, gillespie_vars,
                   history_vars, returnval, last_event, n_events, history>>

\* "return H"
return_nonMarkov_directed_percolate_network ==
    /\ pc = "loop" /\ engine = "nonMarkov_directed_percolate_network"
    /\ it = <<>>
    /\ pc' = "returned"
    /\ UNCHANGED <<args, container_vars, discrete_vars,
                   initial_infecteds, raised, status,
                   fast_vars, times, S, I, R, gillespie_vars, history_vars,
                   perc_vars, last_event, n_events, history>>

\* ---------------------------------------------------- discrete_SIR_epidemic
\* "return H.has_edge(u,v)"
edge_exists(u, v, h) == v \in h.adj[u]

\* the body of the inner loop with "susceptible[v] = False" left out
infect_unmarked(new_infecteds, sus, u, v, h) ==
    IF sus[v] /\ edge_exists(u, v, h)
    THEN <<Append(new_infecteds, v), sus>>
    ELSE <<new_infecteds, sus>>

\* "if susceptible[v] and test_transmission(u, v, *args):
\*      new_infecteds.append(v); susceptible[v] = False"
\* with test_transmission = _edge_exists_ and args = [H]; yields
\* <<new_infecteds, susceptible>>
infect(new_infecteds, sus, u, v, h) ==
    IF sus[v] /\ edge_exists(u, v, h)
    THEN <<Append(new_infecteds, v), [sus EXCEPT ![v] = FALSE]>>
    ELSE <<new_infecteds, sus>>

\* "for v in G.neighbors(u)" over the list nb, G being the graph h
RECURSIVE infect_neighbors(_, _, _, _, _)
infect_neighbors(new_infecteds, sus, u, nb, h) ==
    IF nb = <<>> THEN <<new_infecteds, sus>>
    ELSE LET r == infect(new_infecteds, sus, u, Head(nb), h)
         IN infect_neighbors(r[1], r[2], u, Tail(nb), h)

\* "for u in infecteds" over the list us
RECURSIVE infect_from(_, _, _, _)
infect_from(new_infecteds, sus, us, h) ==
    IF us = <<>> THEN <<new_infecteds, sus>>
    ELSE LET r == infect_neighbors(new_infecteds, sus, Head(us),
                                   neighbors(h, Head(us)), h)
         IN infect_from(r[1], r[2], Tail(us), h)

\* percolation_based_discrete_SIR_epidemic up to the loop of
\* percolate_network: "initial_infecteds=[random.choice(G.nodes())]" for
\* None, "[initial_infecteds]" for a node
call_percolation_based_discrete_SIR_epidemic ==
    /\ pc = "start" /\ engine = "percolation_based_discrete_SIR_epidemic"
    /\ \E L \in IF initial_infecteds.kind = "None"
                THEN {<<u>> : u \in Nodes(G)}
                ELSE {initial_infecteds.nodes} :
          initial_infecteds' = List(L)
    /\ H' = add_nodes_from(EmptyGraph, G)
    /\ it' = edges_iter(G, 1)
    /\ pc' = "loop"
    /\ UNCHANGED <<args, container_vars, discrete_vars, raised, status,
                   fast_vars, times, S, I, R, gillespie_vars, history_vars,
                   returnval, last_event, n_events, history>>

\* percolate_network returns H; discrete_SIR_epidemic(H, _edge_exists_, [H],
\* initial_infecteds) up to its while loop: a list is no node of H, so that
\* initial_infecteds stays as it is
call_discrete_SIR_epidemic ==
    /\ pc = "loop" /\ engine = "percolation_based_discrete_SIR_epidemic"
    /\ it = <<>>
    /\ infecteds' = initial_infecteds.nodes
    /\ times' = <<0>>
    /\ S' = <<Cardinality(H.nodes) - Len(infecteds')>>
    /\ I' = <<Len(infecteds')>>
    /\ R' = <<0>>
    /\ susceptible' = [u \in H.nodes |-> u \notin Range(infecteds')]
    /\ generations' = <<Range(infecteds')>>
    /\ pc' = "while"
    /\ UNCHANGED <<args, container_vars, initial_infecteds, raised, status,
                   fast_vars, gillespie_vars, history_vars, perc_vars,
                   last_event, n_events, history>>

\* one pass of "while infecteds"
discrete_SIR_step ==
    /\ pc = "while" /\ engine = "percolation_based_discrete_SIR_epidemic"
    /\ infecteds # <<>>
    /\ LET r == infect_from(<<>>, susceptible, infecteds, H)
       IN /\ infecteds' = r[1]
          /\ susceptible' = r[2]
          /\ generations' = Append(generations, Range(r[1]))
    /\ R' = Append(R, Last(R) + Last(I))
    /\ I' = Append(I, Len(infecteds'))
    /\ S' = Append(S, Last(S) - Last(I'))
    /\ times' = Append(times, Last(times) + 1)
    /\ UNCHANGED <<args, container_vars, initial_infecteds, pc, raised,
                   status, fast_vars, gillespie_vars, history_vars,
                   perc_vars, last_event, n_events, history>>

\* "return scipy.array(t), scipy.array(S), scipy.array(I), scipy.array(R)"
return_discrete_SIR_epidemic ==
    /\ pc = "while" /\ engine = "percolation_based_discrete_SIR_epidemic"
    /\ infecteds = <<>>
    /\ returnval' = <<times, S, I, R>>
    /\ pc' = "returned"
    /\ UNCHANGED <<args, container_vars, discrete_vars, initial_infecteds,
                   raised, status, fast_vars, times, S, I, R,
                   gillespie_vars, history_vars, H, it, last_event,
                   n_events, history>>

\* ------------------------------------------------------------------ claims
Count(st, x) == Cardinality({u \in DOMAIN st : st[u] = x})

SIR == engine \in SIREngines

k0 == Len(initial_infecteds.nodes)

\* C1: every sample of the trajectory of every engine keeps the population:
\* S + I + R = N in the SIR engines, S + I = N in the SIS engines.
C1_Conservation ==
    engine \in FastEngines \cup GillespieEngines =>
    \A i \in 1..Len(times) :
        IF SIR THEN S[i] + I[i] + R[i] = G.order ELSE S[i] + I[i] = G.order

\* a returned trajectory that holds an infection and a recovery
C1_Witness ==
    /\ pc = "returned" /\ Len(times) >= 3
    /\ \E i \in 1..(Len(I) - 1) : I[i + 1] > I[i]
    /\ \E i \in 1..(Len(I) - 1) : I[i + 1] < I[i]

\* C2: two consecutive samples differ by one transition: an infection (S - 1,
\* I + 1), or a recovery (I - 1 and R + 1 in SIR, I - 1 and S + 1 in SIS).
C2_StepSize ==
    engine \in FastEngines \cup GillespieEngines =>
    \A i \in 1..(Len(times) - 1) :
        \/ /\ S[i + 1] = S[i] - 1 /\ I[i + 1] = I[i] + 1
           /\ SIR => R[i + 1] = R[i]
        \/ /\ SIR
           /\ S[i + 1] = S[i] /\ I[i + 1] = I[i] - 1 /\ R[i + 1] = R[i] + 1
        \/ /\ ~SIR
           /\ S[i + 1] = S[i] + 1 /\ I[i + 1] = I[i] - 1

\* an SIS trajectory was returned in which a node recovered and was infected
\* again
C2_Witness ==
    /\ pc = "returned" /\ ~SIR
    /\ \E i \in 1..(Len(I) - 2) : I[i + 1] < I[i] /\ I[i + 2] > I[i + 1]

\* C3: in the SIR engines, called with distinct initial infecteds, after every
\* event and when the loop has ended the nodes with status 'R' number R[-1]
\* and the nodes with status 'I' number I[-1] (whenever the lists hold an
\* entry).
C3_StatusConsistency ==
    (SIR /\ pc \in {"loop", "returned"} /\ Distinct(initial_infecteds.nodes)
         /\ R # <<>>)
        => /\ Count(status, "R") = Last(R)
           /\ Count(status, "I") = Last(I)

\* an SIR run ended by tmax with recovered and still infected nodes
C3_Witness ==
    /\ SIR /\ pc = "returned" /\ Distinct(initial_infecteds.nodes)
    /\ R # <<>> /\ Last(R) >= 1 /\ Last(I) >= 1

\* C4: a call with both initial_infecteds and rho raises before anything is
\* created: no event is enqueued, no node has a status, there is no trajectory.
C4_ConfigError ==
    (rho.given /\ initial_infecteds.kind # "None")
        => /\ pc \in {"start", "error"}
           /\ pc = "error" => raised = "EoNError"
           /\ Q = <<>> /\ status = <<>> /\ rec_time = <<>>
           /\ pred_inf_time = <<>>
           /\ times = <<>> /\ S = <<>> /\ I = <<>> /\ R = <<>>
           /\ infected = <<>> /\ risk_group = <<>>
           /\ infected_neighbor_count = <<>>

\* the call with both arguments has raised
C4_Witness ==
    rho.given /\ initial_infecteds.kind # "None" /\ pc = "error"

\* C5: fast_SIR and fast_SIS with tmax > 0 and k distinct initial infecteds
\* return a first sample at time 0 with S = N - k, I = k (and R = 0).
C5_FirstSample ==
    (pc = "returned" /\ engine \in FastEngines /\ tmax > 0
         /\ Distinct(initial_infecteds.nodes))
        => /\ times # <<>> /\ times[1] = 0
           /\ S[1] = G.order - k0 /\ I[1] = k0
           /\ SIR => R[1] = 0

\* C6: the lists fast_SIR and fast_SIS return have equal length, one more
\* than the number of state changes made by infections that are not initial
\* and by recoveries; the trajectory is never empty.
C6_Length ==
    (pc = "returned" /\ engine \in FastEngines)
        => /\ Len(times) = 1 + n_events
           /\ Len(S) = Len(times) /\ Len(I) = Len(times)
           /\ SIR => Len(R) = Len(times)

\* C7: called with an empty initial_infecteds every engine completes normally
\* and returns the single sample (0, N, 0 [, 0]).
C7_EmptyInitial ==
    (initial_infecteds.kind = "list" /\ initial_infecteds.nodes = <<>>
         /\ ~rho.given)
        => /\ pc # "error"
           /\ pc = "returned"
                => /\ times = <<0>> /\ S = <<G.order>> /\ I = <<0>>
                   /\ SIR => R = <<0>>

\* C8 as stated: every time of a returned trajectory is strictly below tmax.
C8_AllTimesBelowTmax ==
    (engine \in FastEngines \cup GillespieEngines /\ pc = "returned")
        => \A i \in 1..Len(times) : times[i] < tmax

\* C8: no event with time >= tmax is executed, and every time of the
\* trajectory is strictly below tmax except the initial sample at time 0,
\* which is recorded whatever tmax is.
C8_Horizon ==
    /\ last_event.function # "none" => last_event.time < tmax
    /\ engine \in FastEngines \cup GillespieEngines =>
          \A i \in 1..Len(times) : times[i] < tmax \/ (i = 1 /\ times[i] = 0)

\* a fast_SIR run with a finite tmax ended with a node still infected: its
\* recovery lay at or beyond tmax and was not enqueued
C8_Witness ==
    /\ engine = "fast_SIR" /\ pc = "returned" /\ tmax = 1
    /\ Count(status, "I") >= 1 /\ Len(times) >= 2

\* C9: the times of the trajectory are nondecreasing in every engine.
C9_TimeOrder ==
    \A i \in 1..(Len(times) - 1) : times[i] <= times[i + 1]

\* a returned trajectory with a tie and with a strict increase of time
C9_Witness ==
    /\ pc = "returned" /\ Len(times) >= 3
    /\ \E i \in 1..(Len(times) - 1) : times[i] = times[i + 1]
    /\ \E i \in 1..(Len(times) - 1) : times[i] < times[i + 1]

\* C10: in the SIR engines R never decreases and S never increases along the
\* trajectory; a node with status 'R' keeps it and a node with status 'I'
\* never returns to 'S'.
C10_Monotone ==
    /\ [](SIR => \A i \in 1..(Len(times) - 1) :
                     R[i] <= R[i + 1] /\ S[i] >= S[i + 1])
    /\ [][SIR => \A u \in DOMAIN status :
                     /\ status[u] = "R" => status'[u] = "R"
                     /\ status[u] = "I" => status'[u] # "S"]_vars

\* an SIR run returned after every node of the graph recovered
C10_Witness ==
    /\ SIR /\ pc = "returned" /\ G.order >= 3
    /\ Count(status, "R") = G.order

\* the times at which the events of the function named f changed the status
\* of node, in the order they ran
TimesOf(f, node) ==
    LET sel == SelectSeq(history, LAMBDA e : e.function = f /\ e.node = node)
    IN [i \in 1..Len(sel) |-> sel[i].time]

\* C11: the recovery_times fast_SIS returns hold, for every node, the times
\* of the recoveries of that node that were processed, in order, and the
\* infection_times the times at which the node became infected.
C11_NodeHistory ==
    (engine = "fast_SIS" /\ pc = "returned")
        => \A node \in Nodes(G) :
              /\ recovery_times[node] = TimesOf("process_rec_SIS", node)
              /\ infection_times[node] = TimesOf("process_trans_SIS", node)

\* the dict "infection_time" without the test of the status
infection_time_unfiltered ==
    [node \in {u \in DOMAIN pred_inf_time : pred_inf_time[u] # Inf}
        |-> pred_inf_time[node]]

\* "infection_time = {node:time for (node,time) in pred_inf_time.iteritems()
\*  if status[node]!='S'}": the keys of pred_inf_time that were assigned are
\* those whose value is not the default
infection_time ==
    [node \in {u \in DOMAIN pred_inf_time :
                  pred_inf_time[u] # Inf /\ status[u] # "S"}
        |-> pred_inf_time[node]]

\* "recovery_time = {node:time for (node,time) in rec_time.iteritems() if
\*  status[node] !='S'}"
recovery_time ==
    [node \in {u \in DOMAIN rec_time : rec_time[u] # -1 /\ status[u] # "S"}
        |-> rec_time[node]]

\* the part of C12 that does not depend on how the two times compare: the keys
\* of both dicts are the nodes that are not 'S'; infection_time[node] is the
\* time of the one event that infected the node, 0 for an initial infected;
\* recovery_time[node] is the time of the node's recovery event
C12_KeysAndTimes ==
    /\ DOMAIN infection_time = {u \in Nodes(G) : status[u] # "S"}
    /\ DOMAIN recovery_time = {u \in Nodes(G) : status[u] # "S"}
    /\ \A node \in DOMAIN infection_time :
          /\ TimesOf("process_trans_SIR", node) = <<infection_time[node]>>
          /\ node \in Range(initial_infecteds.nodes)
                => infection_time[node] = 0
          /\ \A i \in 1..Len(history) :
                (history[i].function = "process_rec_SIR"
                     /\ history[i].node = node)
                    => history[i].time = recovery_time[node]

C13_ReachableInH ==
    (engine = "get_infected_nodes" /\ pc = "returned")
        => LET src   == Range(initial_infecteds.nodes)
               reach == Reach(H.adj, src)
           IN returnval \subseteq reach /\ (reach \ src) \subseteq returnval

\* C14: estimate_SIR_prob_size_from_dir_perc(H) returns, for a member u of a
\* largest strongly connected component, PE = |in-component of u| / N and
\* AR = |out-component of u| / N, where both components hold the whole
\* strongly connected component and u itself; _out_component_ yields the
\* nodes reachable from the source with the source, _in_component_ the nodes
\* the target is reachable from with the target.
C14_Components ==
    (engine = "estimate_SIR_prob_size_from_dir_perc" /\ pc = "returned")
        => LET N == Cardinality(H.nodes)
               OutC(u) == Reach(H.adj, {u})
               InC(u)  == {v \in H.nodes : u \in Reach(H.adj, {v})}
           IN /\ \E Hscc \in Largest(strongly_connected_components(H)) :
                 \E u \in Hscc :
                    /\ Hscc \subseteq InC(u) /\ Hscc \subseteq OutC(u)
                    /\ returnval = <<Frac(Cardinality(InC(u)), N),
                                     Frac(Cardinality(OutC(u)), N)>>
              /\ \A u \in H.nodes :
                    /\ out_component(H.adj, Node(u)) = OutC(u)
                    /\ in_component(H.adj, Node(u)) = InC(u)

\* the graph G is connected
Connected(g) == Reach(g.adj, {1}) = Nodes(g)

\* C15: estimate_SIR_prob_size(G, p) returns a pair PE = AR = (size of the
\* largest connected component of the percolated graph) / N; with p = 1 every
\* edge is kept and on a connected graph the pair is (1, 1); with p = 0 no
\* edge is kept and it is (1/N, 1/N).
C15_LargestComponent ==
    (engine = "estimate_SIR_prob_size" /\ pc = "returned")
        => LET PE == returnval[1]
               AR == returnval[2]
               Comp(u) == Reach(H.adj, {u})
           IN /\ PE = AR
              /\ PE.den = G.order
              /\ \E u \in H.nodes : Cardinality(Comp(u)) = PE.num
              /\ \A u \in H.nodes : Cardinality(Comp(u)) <= PE.num
              /\ H.nodes = Nodes(G)
              /\ \A u \in H.nodes : H.adj[u] \subseteq G.adj[u]
              /\ p = ProbDen
                    => /\ \A u \in H.nodes : H.adj[u] = G.adj[u]
                       /\ Connected(G) => PE.num = PE.den
              /\ p = 0
                    => /\ \A u \in H.nodes : H.adj[u] = {}
                       /\ PE.num = 1

\* estimate_SIR_prob_size returned (1, 1) for the 10-node path with p = 1
C15_Witness ==
    /\ engine = "estimate_SIR_prob_size" /\ pc = "returned"
    /\ G = Path10 /\ p = ProbDen
    /\ returnval = <<Frac(10, 10), Frac(10, 10)>>

\* C16: with tau = 0 and tmax infinite, fast_SIR and Gillespie_SIR called
\* with distinct initial infecteds (the graph may give them susceptible
\* neighbours) complete normally: no exception, no node is infected other
\* than the initial ones, and the final R is the number of initial infecteds.
C16_ZeroTau ==
    (SIR /\ tau = 0 /\ tmax = Inf /\ ~BothGiven /\ ~QGiven
         /\ initial_infecteds.nodes # <<>> /\ Distinct(initial_infecteds.nodes))
        => /\ pc # "error"
           /\ \A i \in 1..Len(history) :
                 history[i].function \in {"process_trans_SIR",
                                          "Gillespie_Infect"}
                    => history[i].initial
           /\ pc = "returned" => R # <<>> /\ Last(R) = k0

\* the two-node path scenario: fast_SIR on the path A - B with
\* initial_infecteds = [A] and tmax infinite returned after B was infected
\* and both nodes recovered
TwoNodeScenario ==
    /\ engine = "fast_SIR" /\ pc = "returned"
    /\ G = Path2 /\ initial_infecteds = List(<<1>>) /\ tmax = Inf
    /\ R # <<>> /\ Last(R) = 2

\* C17 as stated: in the two-node path scenario the trimmed trajectory has
\* exactly three samples.
C17_ThreeSamples == TwoNodeScenario => Len(times) = 3

\* C17: in the two-node path scenario the trimmed trajectory has exactly four
\* samples: the initial one (0, 1, 1, 0), the infection of B and the two
\* recoveries.
C17_FourSamples ==
    TwoNodeScenario
        => /\ Len(times) = 4 /\ Len(S) = 4 /\ Len(I) = 4 /\ Len(R) = 4
           /\ <<times[1], S[1], I[1], R[1]>> = <<0, 1, 1, 0>>
           /\ <<S[2], I[2], R[2]>> = <<0, 2, 0>>
           /\ <<S[3], I[3], R[3]>> = <<0, 1, 1>>
           /\ <<S[4], I[4], R[4]>> = <<0, 0, 2>>

\* the scenario with B infected after time 0
C17_Witness == TwoNodeScenario /\ Len(times) >= 2 /\ times[2] > 0

\* C18: fast_nonMarkov_SIR called with a queue Q (and not with both rho and
\* initial_infecteds) raises at once: no event is executed, nothing is
\* enqueued, no status or trajectory exists, and the queue handed over is
\* never modified (its list keeps its order: it is not heapified).
C18_PreSeededQueue ==
    /\ []((engine = "fast_SIR" /\ Q_arg.given /\ ~BothGiven)
             => /\ pc \in {"start", "error"}
                /\ pc = "error" => raised # ""
                /\ last_event = NoEvent /\ history = <<>> /\ n_events = 0
                /\ Q = <<>> /\ status = <<>> /\ rec_time = <<>>
                /\ pred_inf_time = <<>>
                /\ times = <<>> /\ S = <<>> /\ I = <<>> /\ R = <<>>)
    /\ [][Q_arg' = Q_arg]_vars

\* the call with a queue that holds events, in an order that is not a heap's,
\* has raised
C18_Witness ==
    /\ engine = "fast_SIR" /\ ~BothGiven /\ pc = "error"
    /\ Q_arg.given /\ Len(Q_arg.events) = 2
    /\ Q_arg.events[1].time > Q_arg.events[2].time

\* C19: fast_SIR and Gillespie_SIR, for gamma > 0, every tau >= 0 and every
\* tmax, run to the end of their loop (the queue drains, the Gillespie loop
\* exits) rather than stop in an exception, and with tmax infinite they
\* return with I = 0: no node is left infected.
C19_SIRTermination ==
    (SIR /\ ~BothGiven /\ ~QGiven /\ initial_infecteds.nodes # <<>>
         /\ Distinct(initial_infecteds.nodes))
        => /\ pc # "error"
           /\ (pc = "returned" /\ tmax = Inf)
                 => /\ I # <<>> /\ Last(I) = 0
                    /\ Count(status, "I") = 0
                    /\ engine = "fast_SIR" => Q = <<>>
                    /\ engine = "Gillespie_SIR" => infected = <<>>

\* the part of C20 about the Gillespie_SIS loop: it has exited only with
\* next_time >= tmax or nobody infected, and when the total rate is 0 after
\* an iteration next_time is infinity
C20_GillespieExit ==
    engine = "Gillespie_SIS"
        => /\ pc = "returned" => (next_time >= tmax \/ infected = <<>>)
           /\ (pc \in {"loop", "returned"} /\ n_events > 0
                  /\ total_rec_rate + total_trans_rate = 0)
                 => next_time = Inf

RoundedCount ==
    CHOOSE k \in 0..G.order :
        /\ 2 * k * RhoDen - RhoDen <= 2 * G.order * rho.num
        /\ 2 * G.order * rho.num < 2 * k * RhoDen + RhoDen

\* C21: called with rho and without initial_infecteds, each of the four
\* engines infects int(round(N * rho)) pairwise distinct nodes of G at time 0
\* and completes, and the first sample it returns has I equal to that number.
C21_InitialFraction ==
    (engine \in FastEngines \cup GillespieEngines /\ rho.given
         /\ initial_infecteds.kind = "None" /\ ~QGiven)
        => /\ pc # "error"
           /\ pc \in {"loop", "returned"}
                 => /\ Len(initial_infecteds.nodes) = RoundedCount
                    /\ Distinct(initial_infecteds.nodes)
                    /\ Range(initial_infecteds.nodes) \subseteq Nodes(G)
           /\ pc = "returned"
                 => /\ I # <<>> /\ I[1] = RoundedCount
                    /\ times[1] = 0
                    /\ \A u \in Range(initial_infecteds.nodes) :
                          IF engine \in FastEngines
                          THEN \E i \in 1..Len(history) :
                                  /\ history[i].node = u /\ history[i].time = 0
                                  /\ history[i].initial
                          ELSE /\ infection_times[u] # <<>>
                               /\ infection_times[u][1] = 0

\* C22: whenever Gillespie_SIR or Gillespie_SIS (called with distinct initial
\* infecteds) is about to draw the type of the next event, total_rec_rate is
\* gamma times the number of infected nodes and total_trans_rate is tau times
\* the sum over k of k * |risk_group[k]|.
C22_RateBookkeeping ==
    (engine \in GillespieEngines /\ pc = "loop"
         /\ Distinct(initial_infecteds.nodes))
        => /\ total_rec_rate = gamma * Len(infected)
           /\ total_rec_rate = gamma * Count(status, "I")
           /\ total_trans_rate = tau * risk_sum(risk_group)

\* the number of neighbours of v with status 'I'
InfectedNeighbors(v) == Cardinality({u \in G.adj[v] : status[u] = "I"})

\* the number of times v occurs in the list of stratum k
Occurrences(k, v) ==
    Cardinality({i \in 1..Len(risk_group[k].items) :
                     risk_group[k].items[i] = v})

\* C23: in Gillespie_SIR and Gillespie_SIS with distinct initial infecteds
\* (no graph of the model has a self-loop), after initialization and after
\* every step no stratum operation has failed, each susceptible node's
\* infected_neighbor_count is its number of infected neighbours, it is listed
\* once in the stratum of that count when the count is positive and in no
\* other stratum, and no infected or recovered node is in any stratum.
C23_RiskStrata ==
    (engine \in GillespieEngines /\ Distinct(initial_infecteds.nodes))
        => /\ raised # "KeyError"
           /\ pc \in {"loop", "returned"} =>
                 \A v \in Nodes(G) :
                    IF status[v] = "S"
                    THEN /\ infected_neighbor_count[v] = InfectedNeighbors(v)
                         /\ InfectedNeighbors(v) >= 1
                                => InfectedNeighbors(v) \in DOMAIN risk_group
                         /\ \A k \in DOMAIN risk_group :
                                Occurrences(k, v) =
                                    IF k = InfectedNeighbors(v) THEN 1 ELSE 0
                    ELSE \A k \in DOMAIN risk_group : Occurrences(k, v) = 0

\* a recovery has moved a susceptible node from stratum 2 to stratum 1
C23_Witness ==
    /\ engine \in GillespieEngines /\ pc = "loop"
    /\ Distinct(initial_infecteds.nodes)
    /\ last_event.function = "Gillespie_Recover"
    /\ \E v \in Nodes(G) :
          /\ status[v] = "S" /\ InfectedNeighbors(v) = 1
          /\ 2 \in DOMAIN risk_group
          /\ v \in G.adj[last_event.node]

\* the adjacent (infected, susceptible) pairs of the graph
InfectedSusceptiblePairs ==
    {<<u, v>> \in Nodes(G) \X Nodes(G) :
         v \in G.adj[u] /\ status[u] = "I" /\ status[v] = "S"}

\* C24 as stated: in Gillespie_SIS, after initialization and after every
\* step, the sum over k of k * |risk_group[k]| is the number of adjacent
\* (infected, susceptible) pairs.
C24_RiskSum ==
    (engine = "Gillespie_SIS" /\ pc \in {"loop", "returned"})
        => risk_sum(risk_group) = Cardinality(InfectedSusceptiblePairs)

\* C24, amended: the same for calls with distinct initial infecteds.
C24_RiskSumDistinct ==
    (engine = "Gillespie_SIS" /\ pc \in {"loop", "returned"}
         /\ Distinct(initial_infecteds.nodes))
        => risk_sum(risk_group) = Cardinality(InfectedSusceptiblePairs)

\* a node has recovered next to an infected neighbour and is at risk again
C24_Witness ==
    /\ engine = "Gillespie_SIS" /\ pc = "loop"
    /\ Distinct(initial_infecteds.nodes)
    /\ last_event.function = "Gillespie_Recover"
    /\ status[last_event.node] = "S"
    /\ infected_neighbor_count[last_event.node] >= 1
    /\ Cardinality(InfectedSusceptiblePairs) >= 1

\* C25: in Gillespie_SIR and Gillespie_SIS called with distinct initial
\* infecteds (gamma is positive in every call of the model) no assertion
\* fails; whenever a step can run, I[-1] is len(infected), the list infected
\* holds exactly the nodes with status 'I', each once, and every node that
\* can be drawn as recipient has status 'S'.
C25_GillespieAssertions ==
    (engine \in GillespieEngines /\ Distinct(initial_infecteds.nodes)
         /\ gamma > 0)
        => /\ raised # "AssertionError"
           /\ pc = "loop" =>
                 /\ Last(I) = Len(infected)
                 /\ Distinct(infected)
                 /\ Range(infected) = {v \in Nodes(G) : status[v] = "I"}
                 /\ \A k \in DOMAIN risk_group :
                        \A v \in Range(risk_group[k].items) : status[v] = "S"

\* a recovery step has run after an infection step and both can run again
C25_Witness ==
    /\ engine \in GillespieEngines /\ pc = "loop" /\ LoopGuard
    /\ Distinct(initial_infecteds.nodes)
    /\ last_event.function = "Gillespie_Recover"
    /\ \E i \in 1..Len(history) : history[i].function = "Gillespie_Infect"
    /\ risk_sum(risk_group) > 0 /\ infected # <<>>

\* C26: in fast_SIS the assertion of _find_next_trans_SIS_ never fails: the
\* source of every pending transmission event is infected, was infected no
\* later than the event was scheduled, and recovers strictly after the
\* event's time, so it is infected when the event is popped.
C26_SourceInfected ==
    engine = "fast_SIS"
        => /\ raised # "AssertionError"
           /\ pc = "loop" =>
                 \A i \in 1..Len(Q) :
                    (Q[i].function = "process_trans_SIS" /\ Q[i].source # 0)
                        => /\ status[Q[i].source] = "I"
                           /\ Q[i].time < rec_time[Q[i].source]
                           /\ infection_times[Q[i].source] # <<>>
                           /\ Last(infection_times[Q[i].source]) <= Q[i].at

\* the target of a pending transmission has just recovered while the source,
\* which scheduled the event before that recovery, is still infected
C26_Witness ==
    /\ engine = "fast_SIS" /\ pc = "loop"
    /\ last_event.function = "process_rec_SIS"
    /\ \E i \in 1..Len(Q) :
          /\ Q[i].function = "process_trans_SIS" /\ Q[i].source # 0
          /\ Q[i].node = last_event.node
          /\ Q[i].at < last_event.time
          /\ status[Q[i].source] = "I"

\* the transmission events of fast_SIR that a step has added to the queue
EnqueuedTransmissions ==
    {e \in Range(Q') \ Range(Q) : e.function = "process_trans_SIR"}

\* C27: in fast_SIR, between events, pred_inf_time[v] is at most the time of
\* every pending transmission event that targets v; and every transmission
\* event a handler enqueues has a time strictly smaller than its source's
\* recovery time and than pred_inf_time[v] as it was, and pred_inf_time[v]
\* is that time afterwards.
C27_PredictedInfection ==
    /\ []((engine = "fast_SIR" /\ pc \in {"loop", "returned"})
             => \A i \in 1..Len(Q) :
                   Q[i].function = "process_trans_SIR"
                       => pred_inf_time[Q[i].node] <= Q[i].time)
    /\ [][(engine = "fast_SIR" /\ pc = "loop")
             => \A e \in EnqueuedTransmissions :
                   /\ e.time < rec_time'[e.source]
                   /\ e.time < pred_inf_time[e.node]
                   /\ pred_inf_time'[e.node] = e.time]_vars

\* two transmissions to the same node are pending: the later was scheduled
\* first, and the prediction is the time of the earlier
C27_Witness ==
    /\ engine = "fast_SIR" /\ pc = "loop"
    /\ \E i, j \in 1..Len(Q) :
          /\ Q[i].function = "process_trans_SIR"
          /\ Q[j].function = "process_trans_SIR"
          /\ Q[i].node = Q[j].node /\ Q[i].source # Q[j].source
          /\ Q[i].source # 0 /\ Q[j].source # 0
          /\ Q[i].time < Q[j].time /\ Q[j].at <= Q[i].at
          /\ pred_inf_time[Q[i].node] = Q[i].time

\* C28: in fast_SIR no step enqueues an event that concerns a node with status
\* 'R': neither the node of a new event (the target of a transmission, the
\* node of a recovery) nor the source of a new transmission is recovered
\* before or after the step.
C28_NothingForRecovered ==
    [][(engine = "fast_SIR" /\ pc = "loop")
          => \A e \in Range(Q') \ Range(Q) :
                /\ status[e.node] # "R" /\ status'[e.node] # "R"
                /\ e.source # 0
                      => status[e.source] # "R" /\ status'[e.source] # "R"]_vars

\* a node with a recovered neighbour has been infected and its handler has
\* enqueued its recovery
C28_Witness ==
    /\ engine = "fast_SIR" /\ pc = "loop"
    /\ last_event.function = "process_trans_SIR" /\ last_event.changed
    /\ \E u \in G.adj[last_event.node] : status[u] = "R"
    /\ \E i \in 1..Len(Q) :
          /\ Q[i].function = "process_rec_SIR"
          /\ Q[i].node = last_event.node

\* how many entries of the queue q are the event e
Copies(q, e) == Cardinality({i \in 1..Len(q) : q[i] = e})

\* the event "while Q: Q.pop_and_run()" pops next is a transmission of
\* fast_SIR to a node that is not susceptible
StaleTransmission ==
    /\ engine = "fast_SIR" /\ pc = "loop" /\ Q # <<>>
    /\ heappop_item(Q).function = "process_trans_SIR"
    /\ status[heappop_item(Q).node] # "S"

\* C29: in fast_SIR, popping a transmission event whose target is not
\* susceptible changes nothing: status, rec_time, pred_inf_time and the lists
\* times, S, I, R are as before, no exception is raised, and the pending
\* events are those of before less one copy of the popped event.
C29_StaleEventNoOp ==
    [][StaleTransmission
          => /\ status' = status /\ rec_time' = rec_time
             /\ pred_inf_time' = pred_inf_time
             /\ times' = times /\ S' = S /\ I' = I /\ R' = R
             /\ pc' = "loop" /\ raised' = raised
             /\ Len(Q') = Len(Q) - 1
             /\ \A e \in Range(Q) :
                   Copies(Q', e) =
                       Copies(Q, e) - IF e = heappop_item(Q) THEN 1 ELSE 0]_vars

\* a transmission scheduled by a neighbour was popped after its target had
\* been infected by someone else, and other events are still pending
C29_Witness ==
    /\ engine = "fast_SIR" /\ pc = "loop"
    /\ last_event.function = "process_trans_SIR" /\ ~last_event.changed
    /\ last_event.source # 0
    /\ status[last_event.node] # "S"
    /\ Q # <<>>

\* the last step infected a node that was not an initial infection
InfectionRan ==
    /\ pc \in {"loop", "returned"}
    /\ last_event.changed /\ ~last_event.initial
    /\ last_event.function \in {"process_trans_SIR", "process_trans_SIS",
                                "Gillespie_Infect"}

\* the node just infected has an infected neighbour and, in fast_SIR and
\* fast_SIS, the source of the transmission is a neighbour that is infected
\* and recovers strictly after the time of the infection
HasInfector ==
    /\ \E u \in G.adj[last_event.node] : status[u] = "I"
    /\ engine \in FastEngines
          => /\ last_event.source \in G.adj[last_event.node]
             /\ status[last_event.source] = "I"
             /\ rec_time[last_event.source] > last_event.time

\* C30 as stated: in the four engines every infection other than the initial
\* ones happens while a neighbour is infected, and in fast_SIR and fast_SIS
\* while the scheduling source is still infected.
C30_NoSpontaneousInfection ==
    (engine \in FastEngines \cup GillespieEngines /\ InfectionRan)
        => HasInfector

\* C30, amended: the same for calls with distinct initial infecteds.
C30_NoSpontaneousDistinct ==
    (engine \in FastEngines \cup GillespieEngines /\ InfectionRan
         /\ Distinct(initial_infecteds.nodes))
        => HasInfector

\* a node was infected after another node had recovered
C30_Witness ==
    /\ InfectionRan /\ Distinct(initial_infecteds.nodes)
    /\ \E i \in 1..Len(history) :
          history[i].function \in {"process_rec_SIR", "process_rec_SIS",
                                   "Gillespie_Recover"}

\* the pending recovery events of node u
PendingRecoveries(u) ==
    {i \in 1..Len(Q) :
         Q[i].function \in {"process_rec_SIR", "process_rec_SIS"}
             /\ Q[i].node = u}

\* how many events of history ran the handlers fs on node u
Ran_on(fs, u) ==
    Cardinality({i \in 1..Len(history) :
                     history[i].function \in fs /\ history[i].node = u})

\* C31: in fast_SIR and fast_SIS, between events, a node has a pending
\* recovery event exactly when it is infected and its recovery time is below
\* tmax (the event of its current infection, at rec_time), and never more than
\* one; so a popped recovery event finds its node infected, I[-1] is never
\* negative and no node has recovered more often than it was infected.
C31_RecoveryNeverStale ==
    (engine \in FastEngines /\ pc = "loop")
        => /\ \A u \in Nodes(G) :
                 /\ Cardinality(PendingRecoveries(u)) =
                        IF status[u] = "I" /\ rec_time[u] < tmax THEN 1 ELSE 0
                 /\ \A i \in PendingRecoveries(u) : Q[i].time = rec_time[u]
                 /\ Ran_on({"process_rec_SIR", "process_rec_SIS"}, u)
                        <= Ran_on({"process_trans_SIR", "process_trans_SIS"}, u)
           /\ \A i \in 1..Len(I) : I[i] >= 0

\* a recovery event has been popped while another node's recovery is pending
C31_Witness ==
    /\ engine \in FastEngines /\ pc = "loop"
    /\ last_event.function \in {"process_rec_SIR", "process_rec_SIS"}
    /\ status[last_event.node] # "I"
    /\ \E u \in Nodes(G) : u # last_event.node /\ PendingRecoveries(u) # {}

\* the pending transmission events of fast_SIS from source u to target v
PendingTransmissions(u, v) ==
    {i \in 1..Len(Q) : /\ Q[i].function = "process_trans_SIS"
                       /\ Q[i].source = u /\ Q[i].node = v}

\* C32: in fast_SIS, between events, the queue holds at most one transmission
\* event for each ordered pair (source, target); the pair is an edge of G and
\* the event's time is strictly below rec_time[source].
C32_OneAttemptPerPair ==
    (engine = "fast_SIS" /\ pc = "loop")
        => \A u, v \in Nodes(G) :
              /\ Cardinality(PendingTransmissions(u, v)) <= 1
              /\ \A i \in PendingTransmissions(u, v) :
                    v \in G.adj[u] /\ Q[i].time < rec_time[u]

\* a fired attempt of a pair has scheduled its follow-up while the attempt
\* of the same source at another target is pending
C32_Witness ==
    /\ engine = "fast_SIS" /\ pc = "loop"
    /\ last_event.function = "process_trans_SIS" /\ last_event.source # 0
    /\ \E i \in PendingTransmissions(last_event.source, last_event.node) :
          Q[i].at = last_event.time
    /\ \E v \in Nodes(G) \ {last_event.node} :
          PendingTransmissions(last_event.source, v) # {}

\* C33: in Gillespie_SIR and Gillespie_SIS (gamma > 0, tau >= 0), whenever
\* the while loop is about to run an iteration the total rate is positive;
\* if an infection step can be drawn (total_trans_rate > 0) some stratum has
\* weight, if a recovery step can be drawn (total_rec_rate > 0) the list
\* infected is not empty; and no draw from an empty stratum or list ever
\* happens.
C33_EventFeasible ==
    (engine \in GillespieEngines /\ gamma > 0 /\ tau >= 0)
        => /\ raised \notin {"IndexError", "ValueError"}
           /\ (pc = "loop" /\ LoopGuard)
                 => /\ total_rec_rate + total_trans_rate > 0
                    /\ total_trans_rate > 0 => risk_sum(risk_group) > 0
                    /\ total_rec_rate > 0 => infected # <<>>
                    /\ total_rec_rate > 0 => Last(I) >= 1

\* after an infection and a recovery the loop can draw either kind of step
C33_Witness ==
    /\ engine \in GillespieEngines /\ pc = "loop" /\ LoopGuard
    /\ total_trans_rate > 0 /\ total_rec_rate > 0
    /\ \E i, j \in 1..Len(history) :
          /\ history[i].function = "Gillespie_Infect"
          /\ history[j].function = "Gillespie_Recover"

\* the representation invariant of a _ListDict_
WellFormed(c) ==
    /\ Distinct(c.items)
    /\ DOMAIN c.item_to_position = Range(c.items)
    /\ \A i \in 1..Len(c.items) : c.item_to_position[c.items[i]] = i - 1

\* C34: a _ListDict_ is well formed after any sequence of add and remove (on
\* its own, and as a stratum of risk_group in Gillespie_SIR and
\* Gillespie_SIS): items has no duplicates, the keys of item_to_position are
\* the items, and item_to_position[items[i]] = i; add of an item that is
\* present changes nothing.
C34_ListDictInvariant ==
    /\ (engine = "_ListDict_" /\ pc = "loop")
          => /\ WellFormed(container)
             /\ (container_last.op = "add"
                    /\ container_last.item
                           \in Range(container_last.before.items))
                   => container = container_last.before
    /\ (engine \in GillespieEngines /\ pc = "loop")
          => \A k \in DOMAIN risk_group : WellFormed(risk_group[k])

\* the first of three items was removed: the last one took its place
C34_Witness ==
    /\ engine = "_ListDict_" /\ pc = "loop"
    /\ container_last.op = "remove"
    /\ Len(container_last.before.items) = 3
    /\ container_last.item = container_last.before.items[1]
    /\ container.items[1] = container_last.before.items[3]

\* C35: remove(item) of a present item leaves a _ListDict_ without item, with
\* every other element and one element fewer; remove of an absent item raises
\* KeyError and changes nothing; add then remove of a new item gives back the
\* elements of before.
C35_Remove ==
    (engine = "_ListDict_" /\ pc = "loop")
        => /\ (container_last.op = "remove"
                  /\ container_last.item \in Range(container_last.before.items))
                 => /\ raised = ""
                    /\ container_last.item \notin Range(container.items)
                    /\ container_last.item \notin
                           DOMAIN container.item_to_position
                    /\ Range(container.items) =
                           Range(container_last.before.items)
                               \ {container_last.item}
                    /\ Len(container.items) =
                           Len(container_last.before.items) - 1
           /\ (container_last.op = "remove"
                  /\ container_last.item \notin
                         Range(container_last.before.items))
                 => raised = "KeyError" /\ container = container_last.before
           /\ \A item \in Items \ Range(container.items) :
                 /\ item \in Range(LD_add(container, item).items)
                 /\ Range(LD_remove(LD_add(container, item), item).items)
                        = Range(container.items)

\* the only item of a container was removed
C35_Witness ==
    /\ engine = "_ListDict_" /\ pc = "loop"
    /\ container_last.op = "remove" /\ raised = ""
    /\ Len(container_last.before.items) = 1
    /\ container.items = <<>>

\* C36: pop_and_run on a myQueue that is not empty removes one event, one of
\* minimum time among the pending events, and runs its handler once on that
\* event's time and arguments; and len(Q) is the number of events added with
\* a time below tmax less the number popped.  The minimum also holds for
\* every pop of fast_SIR and fast_SIS.
C36_PopAndRun ==
    /\ []((engine = "myQueue" /\ pc = "loop")
             => /\ Len(Q) = n_added - n_popped
                /\ Len(history) = n_popped
                /\ \A i \in 1..Len(Q) : Q[i].time < tmax)
    /\ [][(engine = "myQueue" /\ n_popped' # n_popped)
             => /\ Len(Q') = Len(Q) - 1
                /\ \E i \in 1..Len(Q) :
                      /\ last_event'.time = Q[i].time
                      /\ last_event'.node = Q[i].node
                      /\ \A e \in Range(Q) :
                            Copies(Q', e) =
                                Copies(Q, e) - IF e = Q[i] THEN 1 ELSE 0
                /\ \A i \in 1..Len(Q) : last_event'.time <= Q[i].time
                /\ history' = Append(history, last_event')]_vars
    /\ [][(engine \in FastEngines /\ pc = "loop" /\ Q' # Q)
             => \A i \in 1..Len(Q) : last_event'.time <= Q[i].time]_vars

\* an event added after a later one was popped first, with another pending
C36_Witness ==
    /\ engine = "myQueue" /\ pc = "loop"
    /\ n_popped = 1 /\ n_added = 3
    /\ last_event.node = 3
    /\ \E i \in 1..Len(Q) : Q[i].time > last_event.time

\* the directed graph h has the nodes of G and only edges along edges of G
SubDiGraph(h) ==
    /\ h.nodes = Nodes(G)
    /\ \A u \in h.nodes : h.adj[u] \subseteq G.adj[u]

\* C37: the graph percolate_network builds has the nodes of G and a symmetric
\* set of edges that are edges of G; the graphs directed_percolate_network
\* and nonMarkov_directed_percolate_network return have the nodes of G and
\* an edge u->v only where v is a neighbour of u in G.
C37_SubStructure ==
    /\ (engine = "estimate_SIR_prob_size" /\ pc \in {"loop", "returned"})
          => /\ SubDiGraph(H)
             /\ \A u, v \in H.nodes : v \in H.adj[u] <=> u \in H.adj[v]
    /\ (engine \in {"get_infected_nodes",
                    "nonMarkov_directed_percolate_network"}
           /\ pc \in {"loop", "returned"})
          => /\ H.nodes \subseteq Nodes(G)
             /\ \A u \in H.nodes : H.adj[u] \subseteq G.adj[u]
             /\ (it = <<>> \/ pc = "returned") => SubDiGraph(H)

\* a directed percolation has returned a graph that holds an edge of G in
\* one direction only and another edge in both directions
C37_Witness ==
    /\ engine \in {"get_infected_nodes",
                   "nonMarkov_directed_percolate_network"}
    /\ pc = "returned"
    /\ \E u, v \in Nodes(G) : v \in H.adj[u] /\ u \notin H.adj[v]
    /\ \E u, v \in Nodes(G) : v \in H.adj[u] /\ u \in H.adj[v]

\* the nodes within k steps of the set src along the edges of adj
RECURSIVE Within(_, _, _)
Within(adj, src, k) ==
    IF k = 0 THEN src
    ELSE LET w == Within(adj, src, k - 1)
         IN w \cup UNION {adj[u] : u \in w}

\* the nodes at graph distance k from the set src
AtDistance(adj, src, k) ==
    IF k = 0 THEN src ELSE Within(adj, src, k) \ Within(adj, src, k - 1)

\* C38: when percolation_based_discrete_SIR_epidemic runs discrete_SIR_epidemic
\* on the percolated graph H with the edges of H as the transmission test and
\* the initial infecteds are pairwise distinct, the nodes newly infected at
\* step t are exactly the nodes at graph distance t in H from the initial
\* infecteds and I[t] counts them, S + I + R = N at every step, the loop
\* makes at most N passes, and the call returns with I = 0 and with R the
\* number of nodes that can be reached in H from the initial infecteds
C38_BreadthFirst ==
    (/\ engine = "percolation_based_discrete_SIR_epidemic"
     /\ pc \in {"while", "returned"}
     /\ Distinct(initial_infecteds.nodes))
        => LET src == Range(initial_infecteds.nodes)
               N   == Cardinality(H.nodes)
           IN /\ Len(generations) = Len(times)
              /\ Len(times) <= N + 1
              /\ \A i \in 1..Len(times) :
                    /\ times[i] = i - 1
                    /\ generations[i] = AtDistance(H.adj, src, i - 1)
                    /\ I[i] = Cardinality(generations[i])
                    /\ S[i] + I[i] + R[i] = N
              /\ Range(infecteds) = Last(generations)
              /\ pc = "returned"
                    => /\ Last(I) = 0
                       /\ Last(R) = Cardinality(Reach(H.adj, src))
                       /\ Last(S) = N - Last(R)

\* a call has returned after nodes at distance 1 and at distance 2 were
\* infected, and a node that cannot be reached is still susceptible
C38_Witness ==
    /\ engine = "percolation_based_discrete_SIR_epidemic"
    /\ pc = "returned"
    /\ Distinct(initial_infecteds.nodes)
    /\ Len(times) >= 4
    /\ generations[2] # {} /\ generations[3] # {}
    /\ Last(S) > 0
    /\ \E v \in H.nodes : susceptible[v]

Next ==
    \/ call_fast_SIR
    \/ run_trans_SIR
    \/ run_rec_SIR
    \/ return_fast_SIR
    \/ call_fast_SIS
    \/ run_trans_SIS
    \/ run_rec_SIS
    \/ return_fast_SIS
    \/ call_Gillespie
    \/ Gillespie_Infect
    \/ Gillespie_Recover
    \/ return_Gillespie
    \/ call_estimate_SIR_prob_size
    \/ percolate_edge
    \/ return_estimate_SIR_prob_size
    \/ call_get_infected_nodes
    \/ percolate_node
    \/ return_get_infected_nodes
    \/ call_estimate_SIR_prob_size_from_dir_perc
    \/ call_percolation_based_discrete_SIR_epidemic
    \/ call_discrete_SIR_epidemic
    \/ discrete_SIR_step
    \/ return_discrete_SIR_epidemic
    \/ call_nonMarkov_directed_percolate_network
    \/ transmit_node
    \/ return_nonMarkov_directed_percolate_network
    \/ ListDict_init
    \/ ListDict_add
    \/ ListDict_remove
    \/ myQueue_init
    \/ myQueue_add
    \/ myQueue_pop_and_run

Spec == Init /\ [][Next]_vars

====
